---------------------------- MODULE Spec2Model ----------------------------
(***************************************************************************)
(* Model of the WB workflow application (Flask + SQLAlchemy): the label    *)
(* generator and the stock reconciliation around the stage moves           *)
(* order -> print -> production -> box.                                    *)
(*                                                                         *)
(* The relational database is the record db, one field per table.  A       *)
(* request handler is one action: it reads db, builds the rows it would    *)
(* write, and either commits them (db' is the new database) or rolls back  *)
(* (db' is what was last committed).  A handler that returns without       *)
(* committing loses its pending rows at request teardown, where the        *)
(* scoped session is removed (app.py:13, db.init_app).                     *)
(***************************************************************************)
EXTENDS Integers, Sequences, FiniteSets, TLC

VARIABLES
    db,      \* the committed database
    resp,    \* the answer to the last request
    gen,     \* one run of generate_labels_sync, iteration by iteration
    race     \* two move-to-production requests in flight, step by step

vars == <<db, resp, gen, race>>

-----------------------------------------------------------------------------
(* Bounds of the model *)

MaxPages == 3       \* pages of a stored label source document
MaxQty   == 2       \* largest quantity of one unit
MaxBags  == 2       \* largest initial bag count
MaxFilm  == 2       \* largest initial film length and film usage

-----------------------------------------------------------------------------
(* Small helpers *)

Min(a, b) == IF a < b THEN a ELSE b
Max(a, b) == IF a > b THEN a ELSE b
Last(s)   == s[Len(s)]
Front(s)  == SubSeq(s, 1, Len(s) - 1)

RECURSIVE SumOver(_, _)
\* sum(f(x) for x in S)
SumOver(S, f) ==
    IF S = {} THEN 0
    ELSE LET x == CHOOSE y \in S : TRUE
         IN f[x] + SumOver(S \ {x}, f)

-----------------------------------------------------------------------------
(* label_generator.py: generate_labels_sync                                *)
(*                                                                         *)
(* A page of a source document is the payload of the DataMatrix code       *)
(* printed on it, a sequence of characters; <<>> is a page on which        *)
(* decode() finds no code.  A label is the record of what was drawn.       *)

PIPE == "|"
GS   == "\\x1d"

\* decoded[0].data.decode("utf-8").replace("|", "\x1d")
RestoreGS(code) ==
    [i \in 1..Len(code) |-> IF code[i] = PIPE THEN GS ELSE code[i]]

\* One composed label: the DataMatrix is drawn only when a code was decoded.
ComposeLabel(page) ==
    [dm |-> IF page = <<>> THEN <<>> ELSE RestoreGS(page)]

\* A loop body that works from the head of the document.
LabelIterationFromHead(st) ==
    [doc |-> Tail(st.doc), out |-> Append(st.out, ComposeLabel(Head(st.doc)))]

\* One iteration of the loop: page = doc[-1]; compose; showPage; delete_page(-1)
LabelIteration(st) ==
    [doc |-> Front(st.doc), out |-> Append(st.out, ComposeLabel(Last(st.doc)))]

\* qty = max(0, int(quantity))
LabelQty(quantity) == Max(0, quantity)

RECURSIVE LabelLoop(_, _)
\* for _ in range(qty): if doc.page_count == 0: break; ...
LabelLoop(st, n) ==
    IF n = 0 \/ Len(st.doc) = 0 THEN st
    ELSE LabelLoop(LabelIteration(st), n - 1)

\* The whole call: (output_path, updated_path) as the two documents written.
generate_labels_sync(local_pdf, quantity) ==
    LabelLoop([doc |-> local_pdf, out |-> <<>>], LabelQty(quantity))

-----------------------------------------------------------------------------
(* The generator run step by step *)

PageCodes == { <<>>, <<"a">>, <<"b", PIPE>>, <<PIPE, "c">> }

RECURSIVE SeqsUpTo(_, _)
SeqsUpTo(S, n) ==
    IF n = 0 THEN { <<>> }
    ELSE LET shorter == SeqsUpTo(S, n - 1)
         IN shorter \cup { Append(s, x) : s \in { t \in shorter : Len(t) = n - 1 }, x \in S }

GenIdle == [pc |-> "idle", source |-> <<>>, quantity |-> 0,
            doc |-> <<>>, out |-> <<>>, left |-> 0]

GenInit ==
    gen \in { [pc |-> "call", source |-> s, quantity |-> q,
               doc |-> <<>>, out |-> <<>>, left |-> 0] :
              s \in SeqsUpTo(PageCodes, MaxPages), q \in (-1)..(MaxPages + 1) }

\* doc = fitz.open(local_pdf_path); qty = max(0, int(quantity))
gen_open ==
    /\ gen.pc = "call"
    /\ gen' = [gen EXCEPT !.pc = "loop", !.doc = gen.source, !.out = <<>>,
                          !.left = LabelQty(gen.quantity)]
    /\ UNCHANGED <<db, resp, race>>

\* one pass of the loop body
gen_iterate ==
    /\ gen.pc = "loop"
    /\ gen.left > 0
    /\ Len(gen.doc) > 0
    /\ LET st == LabelIteration([doc |-> gen.doc, out |-> gen.out])
       IN gen' = [gen EXCEPT !.doc = st.doc, !.out = st.out, !.left = gen.left - 1]
    /\ UNCHANGED <<db, resp, race>>

\* the loop ends: range(qty) is used up, or the document has no page left
gen_leave ==
    /\ gen.pc = "loop"
    /\ \/ gen.left = 0
       \/ gen.left > 0 /\ Len(gen.doc) = 0
    /\ gen' = [gen EXCEPT !.pc = "save"]
    /\ UNCHANGED <<db, resp, race>>

\* c.save(); doc.save(updated_path, incremental=False, garbage=4);
\* return output_path, updated_path
gen_save ==
    /\ gen.pc = "save"
    /\ gen' = [gen EXCEPT !.pc = "return"]
    /\ UNCHANGED <<db, resp, race>>

\* doc.save(updated_path, ...) with no page left in doc: fitz.Document.save
\* refuses such a document (ValueError "cannot save with zero pages"), the
\* exception leaves generate_labels_sync.  gen_save stays enabled for a
\* library build that writes the empty document.
gen_save_refused ==
    /\ gen.pc = "save"
    /\ Len(gen.doc) = 0
    /\ gen' = [gen EXCEPT !.pc = "raised"]
    /\ UNCHANGED <<db, resp, race>>


-----------------------------------------------------------------------------
(* The catalogue: tables products and product_groups (models.py).  No      *)
(* handler of the model writes them.                                       *)

\* Python's None, where a query or a lookup finds nothing
NONE == [none |-> TRUE]

CurrentUser    == "u1"      \* flask_login.current_user.id
CurrentSession == "s1"      \* current_user.active_session_id

ProductGroups ==
    { [id |-> "g1", session_id |-> "s1"],
      [id |-> "g2", session_id |-> "s2"] }

\* sizes_json of a product is the set of sizes that carry a barcode (skus);
\* subject is the subjectName of its card data, a sequence of characters
\* (empty: the card has none)
Products ==
    { [nm_id |-> 1, group_id |-> "g1", skus |-> {"M", "L"}, subject |-> <<"T", "s">>],
      [nm_id |-> 2, group_id |-> "g1", skus |-> {"M"},      subject |-> <<>>],
      [nm_id |-> 4, group_id |-> "g2", skus |-> {"M"},      subject |-> <<"T", "s">>] }

\* Product.query.filter_by(nm_id=nm_id).first()
ProductByNmId(nm_id) ==
    IF \E p \in Products : p.nm_id = nm_id
    THEN CHOOSE p \in Products : p.nm_id = nm_id
    ELSE NONE

\* ProductGroup.query.join(Product).filter(Product.nm_id == nm_id,
\*                                         ProductGroup.session_id == session.id).first()
ProductGroupOf(nm_id, session_id) ==
    LET hits == { g \in ProductGroups :
                    /\ g.session_id = session_id
                    /\ \E p \in Products : p.nm_id = nm_id /\ p.group_id = g.id }
    IN IF hits = {} THEN NONE ELSE CHOOSE g \in hits : TRUE

\* Product.get_sku_for_size: the first barcode of the size, or None
get_sku_for_size(product, tech_size) ==
    IF tech_size \in product.skus
    THEN [barcode_of |-> product.nm_id, tech_size |-> tech_size]
    ELSE NONE

-----------------------------------------------------------------------------
(* Rows *)

\* the two print statuses the handlers compare against, transliterated
READY   == "GOTOV"
IN_WORK == "V RABOTE"

\* what a unit row carries from the order item it was copied from
UnitKinds ==
    { [nm_id |-> 1, tech_size |-> "M", color |-> "red",  brand |-> "B1", title |-> "T1"],
      [nm_id |-> 2, tech_size |-> "M", color |-> "blue", brand |-> "B1", title |-> "T2"],
      [nm_id |-> 1, tech_size |-> "L", color |-> "red",  brand |-> "B1", title |-> "T1"],
      [nm_id |-> 2, tech_size |-> "L", color |-> "blue", brand |-> "B1", title |-> "T2"],
      [nm_id |-> 3, tech_size |-> "M", color |-> "red",  brand |-> "B3", title |-> "T3"],
      [nm_id |-> 4, tech_size |-> "M", color |-> "red",  brand |-> "B4", title |-> "T4"] }

\* int(data['quantity']) takes any integer (orders_routes.py:205)
Quantities == (-1)..MaxQty

\* a ProductionOrder as copy_from_order builds it from order item id
ProductionOrderRow(id, k, q, st) ==
    [id |-> id, session_id |-> CurrentSession, order_item_id |-> id,
     nm_id |-> k.nm_id, tech_size |-> k.tech_size,
     color |-> k.color, brand |-> k.brand, title |-> k.title,
     quantity |-> q, print_status |-> st]

TheOrder == 1      \* the id of the one order of the model

OrderItemRow(id, k, q, st) ==
    [id |-> id, order_id |-> TheOrder,
     nm_id |-> k.nm_id, tech_size |-> k.tech_size,
     color |-> k.color, brand |-> k.brand, title |-> k.title,
     quantity |-> q, print_status |-> st]

\* the pages of the uploaded source documents, each code issued once
SourcePages ==
    << <<"k1", PIPE>>, <<"k2", PIPE>>, <<"k3", PIPE>>, <<"k4", PIPE>>, <<"k5", PIPE>> >>

CisLabelRow(pages) ==
    [id |-> 1, session_id |-> "s1", group_id |-> "g1", tech_size |-> "M",
     file_data |-> pages]

InventoryRow(id, s, u, bags, boxes, film) ==
    [id |-> id, session_id |-> s, user_id |-> u,
     bags_25x30 |-> bags, boxes_60x40x40 |-> boxes, print_film |-> film]

EmptyDb ==
    [inventory |-> {}, cis_labels |-> {}, order_items |-> {},
     production_orders |-> {}, production_items |-> {}, brand_expenses |-> {},
     print_tasks |-> {}, boxes |-> {}, box_items |-> {}, finished_goods |-> {},
     deliveries |-> {}, delivery_boxes |-> {}]

NoResp == [op |-> "none", code |-> 0, kind |-> "none", ids |-> {},
           required |-> 0, available |-> 0, detail |-> <<>>, more |-> 0,
           moved |-> 0, labels |-> 0]

Resp(op, ids, code, kind) ==
    [op |-> op, code |-> code, kind |-> kind, ids |-> ids,
     required |-> 0, available |-> 0, detail |-> <<>>, more |-> 0,
     moved |-> 0, labels |-> 0]

RaceIdle == [phase |-> "off"]

-----------------------------------------------------------------------------
(* Queries *)

RECURSIVE IdsAscending(_)
IdsAscending(S) ==
    IF S = {} THEN <<>>
    ELSE LET m == CHOOSE x \in S : \A y \in S : x <= y
         IN <<m>> \o IdsAscending(S \ {m})

\* Query.all(): the rows in primary-key order
RowsInOrder(rows) ==
    LET ids == IdsAscending({ r.id : r \in rows })
    IN [i \in 1..Len(ids) |-> CHOOSE r \in rows : r.id = ids[i]]

\* Query.first()
FirstRow(rows) ==
    IF rows = {} THEN NONE
    ELSE CHOOSE r \in rows : \A o \in rows : r.id <= o.id

NextId(rows) == IF rows = {} THEN 1
                ELSE 1 + (CHOOSE m \in { r.id : r \in rows } :
                             \A o \in rows : o.id <= m)

RECURSIVE SeqQuantity(_)
\* sum(item.quantity for item in items)
SeqQuantity(items) ==
    IF items = <<>> THEN 0 ELSE Head(items).quantity + SeqQuantity(Tail(items))

GroupKey(item) == <<item.nm_id, item.tech_size>>

RECURSIVE GroupKeys(_, _)
\* the keys of items_by_product in insertion order
GroupKeys(items, seen) ==
    IF items = <<>> THEN seen
    ELSE LET k == GroupKey(Head(items))
         IN GroupKeys(Tail(items),
                      IF \E i \in 1..Len(seen) : seen[i] = k THEN seen
                      ELSE Append(seen, k))

ItemsOfGroup(items, key) == SelectSeq(items, LAMBDA it : GroupKey(it) = key)

\* CISLabel.query.filter_by(group_id=..., tech_size=...).first()
CisLabelOf(d, group_id, tech_size) ==
    FirstRow({ c \in d.cis_labels : c.group_id = group_id /\ c.tech_size = tech_size })

\* Inventory.query.filter_by(session_id=session.id).first()
InventoryOfSession(d, session_id) ==
    FirstRow({ i \in d.inventory : i.session_id = session_id })

-----------------------------------------------------------------------------
(* Specification SpecLabels: one call of generate_labels_sync on any source *)
(* document of at most MaxPages pages, for any requested quantity.          *)

SpecLabelsInit ==
    /\ db = EmptyDb
    /\ resp = NoResp
    /\ race = RaceIdle
    /\ GenInit

SpecLabelsNext ==
    gen_open \/ gen_iterate \/ gen_leave \/ gen_save \/ gen_save_refused

SpecLabels == SpecLabelsInit /\ [][SpecLabelsNext]_vars

\* C7: for a source of p pages and a requested quantity k >= 0 the call
\* raises no error and returns an artifact of min(k, p) pages and an updated
\* source of p - min(k, p) pages (k = 0: nothing produced, nothing consumed;
\* k > p: p labels, empty source).
C7_PageCounts ==
    gen.quantity >= 0 =>
        /\ gen.pc # "raised"
        /\ gen.pc = "return" =>
              LET p == Len(gen.source)
                  k == gen.quantity
              IN /\ Len(gen.out) = Min(k, p)
                 /\ Len(gen.doc) = p - Min(k, p)

\* C8: the i-th emitted label carries the payload (separator restored) of
\* the i-th page from the end of the original source, and what is left of
\* the source is its first p - n pages in their original order.
C8_TailOrder ==
    gen.pc = "return" =>
        LET p == Len(gen.source)
            n == Len(gen.out)
        IN /\ n <= p
           /\ \A i \in 1..n : gen.out[i].dm = RestoreGS(gen.source[p - i + 1])
           /\ gen.doc = SubSeq(gen.source, 1, p - n)

\* two labels were taken from a longer source whose last two pages differ
C8_Witness ==
    /\ gen.pc = "return"
    /\ Len(gen.out) = 2
    /\ Len(gen.source) = 3
    /\ gen.source[3] # gen.source[2]
    /\ gen.source[1] # gen.source[3]
    /\ gen.out[1].dm = RestoreGS(gen.source[3])
    /\ gen.out[1].dm # gen.source[3]
    /\ gen.doc = <<gen.source[1]>>

-----------------------------------------------------------------------------
(* production_orders_routes.py: move_to_production                         *)

\* A check that looks at the first selected row only.
ItemsNotReadyFirstOnly(rows) ==
    IF rows # <<>> /\ Head(rows).print_status # READY THEN <<Head(rows)>> ELSE <<>>

\* [item for item in ... if item.print_status != 'ГОТОВ'] (the same line in
\* both move-to-production routes)
ItemsNotReady(rows) == SelectSeq(rows, LAMBDA r : r.print_status # READY)

\* A validation that forgets the barcode of the size.
PoGroupCheckNoSku(d, s, key, items) ==
    LET product == ProductByNmId(key[1])
        group   == ProductGroupOf(key[1], s)
    IN IF product = NONE THEN "product_missing"
       ELSE IF group = NONE THEN "group_missing"
       ELSE LET cis_label == CisLabelOf(d, group.id, key[2])
            IN IF cis_label = NONE THEN "no_cis_label"
               ELSE IF Len(cis_label.file_data) < SeqQuantity(items)
                    THEN "not_enough_pages"
                    ELSE "ok"

\* STEP 1, the body of the validation loop for one group: the reason the
\* group is refused, or "ok"
PoGroupCheck(d, s, key, items) ==
    LET nm_id     == key[1]
        tech_size == key[2]
        product   == ProductByNmId(nm_id)
        group     == ProductGroupOf(nm_id, s)
    IN IF product = NONE THEN "product_missing"
       ELSE IF group = NONE THEN "group_missing"
       ELSE IF get_sku_for_size(product, tech_size) = NONE THEN "no_sku"
       ELSE LET cis_label == CisLabelOf(d, group.id, tech_size)
            IN IF cis_label = NONE THEN "no_cis_label"
               ELSE IF Len(cis_label.file_data) < SeqQuantity(items)
                    THEN "not_enough_pages"
                    ELSE "ok"

\* validation_errors, one entry per refused group, in group order
PoValidationErrors(d, s, keys, rows) ==
    LET verdict(k) == PoGroupCheck(d, s, k, ItemsOfGroup(rows, k))
        bad == SelectSeq(keys, LAMBDA k : verdict(k) # "ok")
    IN [i \in 1..Len(bad) |->
          [nm_id |-> bad[i][1], tech_size |-> bad[i][2], reason |-> verdict(bad[i])]]

\* the file copied to static/labels, named by its link
LabelsFile(nm_id, tech_size, pages) ==
    [nm_id |-> nm_id, tech_size |-> tech_size, pages |-> pages]

\* ProductionItem(...) as built in the item loop
ProductionItemRow(id, u, s, item, order_item_id, labels_link) ==
    [id |-> id, session_id |-> s, user_id |-> u,
     order_item_id |-> order_item_id,
     nm_id |-> item.nm_id, tech_size |-> item.tech_size, color |-> item.color,
     brand |-> item.brand, title |-> item.title, quantity |-> item.quantity,
     print_status |-> item.print_status, labels_link |-> labels_link,
     box_number |-> "", selected |-> FALSE]

\* the brand expense of the day: BrandExpense.query.filter_by(...).first(),
\* then the size counter and bags_used are raised, or the row is created
TrackBrandExpense(d, u, s, item, color_default) ==
    LET color_name == IF item.color = "" THEN color_default ELSE item.color
        hits == { e \in d.brand_expenses :
                    /\ e.session_id = s
                    /\ e.brand = item.brand
                    /\ e.product_name = item.title
                    /\ e.color = color_name }
        expense == FirstRow(hits)
        size == item.tech_size
    IN IF expense # NONE
       THEN LET current_qty == IF size \in DOMAIN expense.sizes
                               THEN expense.sizes[size] ELSE 0
                sizes == [z \in DOMAIN expense.sizes \cup {size} |->
                            IF z = size THEN current_qty + item.quantity
                            ELSE expense.sizes[z]]
            IN (d.brand_expenses \ {expense}) \cup
               { [expense EXCEPT !.sizes = sizes,
                                 !.bags_used = expense.bags_used + item.quantity] }
       ELSE d.brand_expenses \cup
            { [id |-> NextId(d.brand_expenses), session_id |-> s, user_id |-> u,
               brand |-> item.brand, product_name |-> item.title,
               color |-> color_name,
               sizes |-> [z \in {size} |-> item.quantity],
               bags_used |-> item.quantity] }

\* the body of "for item in items" of STEP 2; acc is the session's pending
\* database with the counters of the request
PoMoveItem(acc, u, s, item, labels_url) ==
    [d |-> [acc.d EXCEPT
              !.production_items =
                  @ \cup { ProductionItemRow(NextId(acc.d.production_items),
                                             u, s, item, item.order_item_id,
                                             labels_url) },
              !.brand_expenses = TrackBrandExpense(acc.d, u, s, item, "no color"),
              !.production_orders = @ \ {item}],
     total_items_quantity |-> acc.total_items_quantity + item.quantity,
     moved_count |-> acc.moved_count + 1,
     labels_generated |-> acc.labels_generated]

RECURSIVE PoMoveItems(_, _, _, _, _)
PoMoveItems(acc, u, s, items, labels_url) ==
    IF items = <<>> THEN acc
    ELSE PoMoveItems(PoMoveItem(acc, u, s, Head(items), labels_url),
                     u, s, Tail(items), labels_url)

\* the body of "for (nm_id, tech_size), items" of STEP 2 when the labels of
\* the group are generated: the stored source becomes what the generator
\* left of it, then the items are moved
PoMoveGroup(acc, u, s, key, items) ==
    LET group     == ProductGroupOf(key[1], s)
        cis_label == CisLabelOf(acc.d, group.id, key[2])
        made      == generate_labels_sync(cis_label.file_data, SeqQuantity(items))
        shrunk    == [cis_label EXCEPT !.file_data = made.doc]
        acc1      == [acc EXCEPT
                        !.d.cis_labels = (@ \ {cis_label}) \cup {shrunk},
                        !.labels_generated = @ + 1]
    IN PoMoveItems(acc1, u, s, items, LabelsFile(key[1], key[2], made.out))

RECURSIVE PoMoveGroups(_, _, _, _, _)
PoMoveGroups(acc, u, s, keys, rows) ==
    IF keys = <<>> THEN acc
    ELSE PoMoveGroups(PoMoveGroup(acc, u, s, Head(keys), ItemsOfGroup(rows, Head(keys))),
                      u, s, Tail(keys), rows)

\* the first group whose generation uses the last page of its source (0:
\* none does): doc.save() refuses a document without pages, so the try
\* block of this group raises
FirstEmptying(start, u, s, keys, rows) ==
    LET emptied(i) == \E c \in PoMoveGroups(start, u, s, SubSeq(keys, 1, i), rows).d.cis_labels :
                         c.file_data = <<>>
        hits == { i \in 1..Len(keys) : emptied(i) }
    IN IF hits = {} THEN 0 ELSE CHOOSE i \in hits : \A j \in hits : i <= j

\* Inventory(user_id=..., session_id=...): the column defaults are 0
NewInventory(d, u, s) == InventoryRow(NextId(d.inventory), s, u, 0, 0, 0)

\* the whole request.  raised is the group whose try block is taken to raise
\* on the call itself (0: none does): generate_labels_sync is called with
\* label_settings=, a keyword its signature does not have.  The last step
\* of the generation refuses an emptied document, so the group that uses
\* the last page of a source raises in every case.  The handler answers
\* any exception of the block by rollback.
PoMoveToProduction(u, s, item_ids, raised) ==
    LET op   == "po_move"
        rows == RowsInOrder({ r \in db.production_orders :
                                r.id \in item_ids /\ r.session_id = s })
        items_not_ready == ItemsNotReady(rows)
        keys   == GroupKeys(rows, <<>>)
        errors == PoValidationErrors(db, s, keys, rows)
        start  == [d |-> db, total_items_quantity |-> 0, moved_count |-> 0,
                   labels_generated |-> 0]
        done   == PoMoveGroups(start, u, s, keys, rows)
        emptying == FirstEmptying(start, u, s, keys, rows)
        total  == done.total_items_quantity
        found  == InventoryOfSession(done.d, s)
        inventory == IF found = NONE THEN NewInventory(done.d, u, s) ELSE found
    IN IF item_ids = {} THEN
           raised = 0 /\ db' = db /\ resp' = Resp(op, item_ids, 400, "nothing_selected")
       ELSE IF rows = <<>> THEN
           raised = 0 /\ db' = db /\ resp' = Resp(op, item_ids, 404, "not_found")
       ELSE IF items_not_ready # <<>> THEN
           /\ raised = 0
           /\ db' = db
           /\ resp' = [Resp(op, item_ids, 400, "not_ready") EXCEPT
                         !.detail = [i \in 1..Min(3, Len(items_not_ready)) |->
                                        items_not_ready[i].id],
                         !.more = Max(0, Len(items_not_ready) - 3)]
       ELSE IF errors # <<>> THEN
           /\ raised = 0
           /\ db' = db
           /\ resp' = [Resp(op, item_ids, 400, "validation") EXCEPT !.detail = errors]
       ELSE IF raised # 0 \/ emptying # 0 THEN
           /\ raised \in 0..Len(keys)
           /\ emptying # 0 => raised <= emptying
           /\ db' = db                                    \* db.session.rollback()
           /\ resp' = [Resp(op, item_ids, 500, "label_error") EXCEPT
                         !.detail = <<keys[IF raised # 0 THEN raised ELSE emptying]>>]
       ELSE IF total > 0 /\ inventory.bags_25x30 < total THEN
           /\ db' = db                                    \* db.session.rollback()
           /\ resp' = [Resp(op, item_ids, 400, "no_bags") EXCEPT
                         !.required = total,
                         !.available = inventory.bags_25x30]
       ELSE
           /\ db' = IF total > 0
                    THEN [done.d EXCEPT !.inventory =
                            (@ \ {inventory}) \cup
                            { [inventory EXCEPT !.bags_25x30 = @ - total] }]
                    ELSE done.d                           \* db.session.commit()
           /\ resp' = [Resp(op, item_ids, 200, "success") EXCEPT
                         !.moved = done.moved_count,
                         !.labels = done.labels_generated]

-----------------------------------------------------------------------------
(* production_routes.py: move_to_production (order items)                  *)

\* CISLabel.query.filter_by(session_id=..., group_id=..., tech_size=...).first()
CisLabelOfSession(d, s, group_id, tech_size) ==
    FirstRow({ c \in d.cis_labels :
                 c.session_id = s /\ c.group_id = group_id /\ c.tech_size = tech_size })

\* the body of "for order_item in items"
OiMoveItem(acc, u, s, item, labels_url) ==
    [acc EXCEPT
       !.d = [acc.d EXCEPT
                !.production_items =
                    @ \cup { ProductionItemRow(NextId(acc.d.production_items),
                                               u, s, item, item.id, labels_url) },
                !.order_items = @ \ {item},
                !.brand_expenses = TrackBrandExpense(acc.d, u, s, item, "")],
       !.moved_count = @ + 1,
       !.total_items_quantity = @ + item.quantity]

RECURSIVE OiMoveItems(_, _, _, _, _)
OiMoveItems(acc, u, s, items, labels_url) ==
    IF items = <<>> THEN acc
    ELSE OiMoveItems(OiMoveItem(acc, u, s, Head(items), labels_url),
                     u, s, Tail(items), labels_url)

\* the body of the group loop; raises tells whether the try block of this
\* group raises.  A group without product, product group or label source,
\* or whose generation raises, is left where it is ("continue"); otherwise
\* the shrunk source is committed at once, with all that is pending, and
\* the items of the group are moved.
OiMoveGroup(acc, u, s, key, items, raises) ==
    LET product == ProductByNmId(key[1])
        group   == ProductGroupOf(key[1], s)
        cis_label == CisLabelOfSession(acc.d, s, group.id, key[2])
        made    == generate_labels_sync(cis_label.file_data, SeqQuantity(items))
        d1      == [acc.d EXCEPT !.cis_labels =
                      (@ \ {cis_label}) \cup {[cis_label EXCEPT !.file_data = made.doc]}]
    IN IF product = NONE \/ group = NONE THEN acc
       ELSE IF cis_label = NONE THEN acc
       ELSE IF raises \/ made.doc = <<>> THEN acc        \* doc.save() refuses
       ELSE OiMoveItems([acc EXCEPT !.d = d1, !.committed = d1,
                                    !.labels_generated = @ + 1],
                        u, s, items, LabelsFile(key[1], key[2], made.out))

RECURSIVE OiMoveGroups(_, _, _, _, _, _, _)
OiMoveGroups(acc, u, s, keys, rows, raising, i) ==
    IF i > Len(keys) THEN acc
    ELSE OiMoveGroups(OiMoveGroup(acc, u, s, keys[i], ItemsOfGroup(rows, keys[i]),
                                  i \in raising),
                      u, s, keys, rows, raising, i + 1)

\* the whole request; raising is the set of groups (by position) whose try
\* block raises
OiMoveToProduction(u, s, order_id, item_ids, raising) ==
    LET op   == "oi_move"
        rows == RowsInOrder({ r \in db.order_items :
                                r.id \in item_ids /\ r.order_id = order_id })
        items_not_ready == ItemsNotReady(rows)
        keys  == GroupKeys(rows, <<>>)
        start == [d |-> db, committed |-> db, total_items_quantity |-> 0,
                  moved_count |-> 0, labels_generated |-> 0]
        done  == OiMoveGroups(start, u, s, keys, rows, raising, 1)
        total == done.total_items_quantity
        found == InventoryOfSession(done.d, s)
        inventory == IF found = NONE THEN NewInventory(done.d, u, s) ELSE found
    IN IF item_ids = {} THEN
           raising = {} /\ db' = db /\ resp' = Resp(op, item_ids, 400, "nothing_selected")
       ELSE IF rows = <<>> THEN
           raising = {} /\ db' = db /\ resp' = Resp(op, item_ids, 404, "not_found")
       ELSE IF items_not_ready # <<>> THEN
           /\ raising = {}
           /\ db' = db
           /\ resp' = [Resp(op, item_ids, 400, "not_ready") EXCEPT
                         !.detail = [i \in 1..Min(3, Len(items_not_ready)) |->
                                        items_not_ready[i].id],
                         !.more = Max(0, Len(items_not_ready) - 3)]
       ELSE
           /\ raising \subseteq 1..Len(keys)
           /\ IF total > 0 /\ inventory.bags_25x30 < total THEN
                 /\ db' = done.committed                  \* db.session.rollback()
                 /\ resp' = [Resp(op, item_ids, 400, "no_bags") EXCEPT
                               !.required = total,
                               !.available = inventory.bags_25x30,
                               !.labels = done.labels_generated]
              ELSE
                 /\ db' = IF total > 0
                          THEN [done.d EXCEPT !.inventory =
                                  (@ \ {inventory}) \cup
                                  { [inventory EXCEPT !.bags_25x30 = @ - total] }]
                          ELSE done.d                     \* db.session.commit()
                 /\ resp' = IF done.moved_count = 0
                            THEN [Resp(op, item_ids, 400, "none_moved") EXCEPT
                                    !.labels = done.labels_generated]
                            ELSE [Resp(op, item_ids, 200, "success") EXCEPT
                                    !.moved = done.moved_count,
                                    !.labels = done.labels_generated]

-----------------------------------------------------------------------------
(* Specification SpecMove: the two move-to-production routes, from every   *)
(* database of at most two units (order items, or production orders), one  *)
(* label source document and one ledger row.                               *)

UnitIds == {1, 2}

PrintStatuses == {READY, IN_WORK}

\* the units of a family: the two products that have a barcode and may
\* have a label source in every quantity, the products that miss something
\* with quantity 1, all of these printed; and one unit still in print
LabelledKinds == { k \in UnitKinds : k.nm_id \in {1, 2} /\ k.tech_size = "M" }

UnitChoices ==
    (LabelledKinds \X Quantities \X {READY})
    \cup ((UnitKinds \ LabelledKinds) \X {1} \X {READY})
    \cup ({ k \in LabelledKinds : k.nm_id = 1 } \X {1} \X {IN_WORK})

\* the families of units: which ids exist, and what each one is
UnitFamilies ==
    UNION { [ids -> UnitChoices] : ids \in SUBSET UnitIds }

\* no document, one for (g1, "M") with 1..MaxPages pages, or a full one for
\* (g1, "L"), a size for which only product 1 has a barcode
DocChoices ==
    { {} } \cup { { CisLabelRow(SubSeq(SourcePages, 1, p)) } : p \in 1..MaxPages }
    \cup { { [CisLabelRow(SubSeq(SourcePages, 1, MaxPages)) EXCEPT !.tech_size = "L"] } }

\* no ledger row, or one with 0..MaxBags bags
BagChoices ==
    { {} } \cup { { InventoryRow(1, CurrentSession, CurrentUser, b, 0, 0) } : b \in 0..MaxBags }

\* the units are either order items (stage "order") or production orders
\* whose order items are gone (stage "printed")
MoveDb(units, docs, inv, stage) ==
    [EmptyDb EXCEPT
       !.order_items =
           IF stage # "order" THEN {}
           ELSE { OrderItemRow(i, units[i][1], units[i][2], units[i][3]) :
                    i \in DOMAIN units },
       !.production_orders =
           IF stage # "printed" THEN {}
           ELSE { ProductionOrderRow(i, units[i][1], units[i][2], units[i][3]) :
                    i \in DOMAIN units },
       !.cis_labels = docs,
       !.inventory = inv]

SpecMoveInit ==
    /\ db \in { MoveDb(units, docs, inv, stage) :
                  units \in UnitFamilies, docs \in DocChoices, inv \in BagChoices,
                  stage \in {"order", "printed"} }
    /\ resp = NoResp
    /\ gen = GenIdle
    /\ race = RaceIdle

po_move_to_production ==
    /\ \E item_ids \in SUBSET UnitIds, raised \in 0..Cardinality(UnitIds) :
          PoMoveToProduction(CurrentUser, CurrentSession, item_ids, raised)
    /\ UNCHANGED <<gen, race>>

oi_move_to_production ==
    /\ \E item_ids \in SUBSET UnitIds, raising \in SUBSET (1..Cardinality(UnitIds)) :
          OiMoveToProduction(CurrentUser, CurrentSession, TheOrder, item_ids, raising)
    /\ UNCHANGED <<gen, race>>

SpecMoveNext == po_move_to_production \/ oi_move_to_production

SpecMove == SpecMoveInit /\ [][SpecMoveNext]_vars

\* what a request selects, as the claims name it
SelectedOrders(d, ids) ==
    { r \in d.production_orders : r.id \in ids /\ r.session_id = CurrentSession }

SelectedItems(d, ids) ==
    { r \in d.order_items : r.id \in ids /\ r.order_id = TheOrder }

\* C5: a move-to-production request (either route) that selects at least one
\* unit whose print status is not the done status is answered by a rejection
\* and leaves every table as it was.
C5_NotReadyRejected ==
    [][ /\ resp'.op = "po_move" /\ (\E r \in SelectedOrders(db, resp'.ids) :
                                       r.print_status # READY)
           => (resp'.code = 400 /\ resp'.kind = "not_ready" /\ db' = db)
        /\ resp'.op = "oi_move" /\ (\E r \in SelectedItems(db, resp'.ids) :
                                       r.print_status # READY)
           => (resp'.code = 400 /\ resp'.kind = "not_ready" /\ db' = db)
      ]_vars

\* a request selecting a done unit first and a not-done unit second was rejected
C5_Witness ==
    /\ resp.kind = "not_ready"
    /\ resp.ids = {1, 2}
    /\ resp.detail = <<2>>
    /\ \E r \in SelectedOrders(db, {1}) : r.print_status = READY
    /\ \E r \in SelectedOrders(db, {2}) : r.print_status # READY

\* the summed quantity of a set of rows
TotalQuantity(rows) ==
    SumOver({ r.id : r \in rows },
            [i \in { r.id : r \in rows } |-> (CHOOSE r \in rows : r.id = i).quantity])

\* the rows of a selection that belong to one (product, size) group
OfGroup(rows, key) == { r \in rows : r.nm_id = key[1] /\ r.tech_size = key[2] }

\* the label source documents a (product, size) group draws on
DocsOfGroup(d, key) ==
    { c \in d.cis_labels :
        /\ c.tech_size = key[2]
        /\ \E p \in Products, g \in ProductGroups :
              /\ p.nm_id = key[1]
              /\ p.group_id = g.id
              /\ g.session_id = CurrentSession
              /\ c.group_id = g.id }

\* a group fails one of the five checks of the validation phase
GroupFailsValidation(d, rows, key) ==
    \/ ~ \E p \in Products : p.nm_id = key[1]
    \/ ~ \E p \in Products, g \in ProductGroups :
            p.nm_id = key[1] /\ p.group_id = g.id /\ g.session_id = CurrentSession
    \/ ~ \E p \in Products : p.nm_id = key[1] /\ key[2] \in p.skus
    \/ DocsOfGroup(d, key) = {}
    \/ \E c \in DocsOfGroup(d, key) :
          Len(c.file_data) < TotalQuantity(OfGroup(rows, key))

\* the bag count of the workspace (no ledger row counts as none available)
BagCount(d) ==
    IF \E i \in d.inventory : i.session_id = CurrentSession
    THEN (CHOOSE i \in d.inventory : i.session_id = CurrentSession).bags_25x30
    ELSE 0

\* a production-orders request on a batch of done units
PoBatch(d, r) ==
    /\ r.op = "po_move"
    /\ SelectedOrders(d, r.ids) # {}
    /\ \A o \in SelectedOrders(d, r.ids) : o.print_status = READY

\* C2: when a group of a production-orders batch fails a validation check,
\* nothing transitions: every table is after the request what it was before.
C2_ValidationAborts ==
    [][ LET sel == SelectedOrders(db, resp'.ids)
        IN (/\ PoBatch(db, resp')
            /\ \E o \in sel : GroupFailsValidation(db, sel, GroupKey(o)))
           => db' = db
      ]_vars

\* a batch of two groups was refused for the one group that needs more pages
\* than the document has, and both units are still production orders
C2_Witness ==
    /\ resp.op = "po_move"
    /\ resp.kind = "validation"
    /\ resp.ids = {1, 2}
    /\ Len(resp.detail) = 1
    /\ resp.detail[1].reason = "not_enough_pages"
    /\ Cardinality(SelectedOrders(db, {1, 2})) = 2
    /\ db.production_items = {}

\* C1: a production-orders batch whose groups all pass validation but which
\* needs more bags than the workspace has is rejected with the required and
\* the available count, and every table is what it was before.
C1_BagShortfallRollsBack ==
    [][ LET sel == SelectedOrders(db, resp'.ids)
        IN (/\ PoBatch(db, resp')
            /\ \A o \in sel : ~ GroupFailsValidation(db, sel, GroupKey(o))
            /\ BagCount(db) < TotalQuantity(sel))
           => /\ resp'.code = 400
              /\ resp'.kind = "no_bags"
              /\ resp'.required = TotalQuantity(sel)
              /\ resp'.available = BagCount(db)
              /\ db' = db
      ]_vars

\* C3: a production-orders batch whose groups all pass validation and for
\* which the bags suffice succeeds: the selected rows are deleted, each has
\* exactly one in-production row with its product, size, color and quantity
\* and the label artifact of its group, each group's source document is
\* replaced by a shrunk form, and the bag count is lower by the total.
C3_MoveSucceeds ==
    [][ LET sel == SelectedOrders(db, resp'.ids)
        IN (/\ PoBatch(db, resp')
            /\ \A o \in sel : ~ GroupFailsValidation(db, sel, GroupKey(o))
            /\ BagCount(db) >= TotalQuantity(sel))
           => /\ resp'.code = 200
              /\ SelectedOrders(db', resp'.ids) = {}
              /\ \A o \in sel :
                    Cardinality({ p \in db'.production_items \ db.production_items :
                                    /\ p.order_item_id = o.order_item_id
                                    /\ p.nm_id = o.nm_id
                                    /\ p.tech_size = o.tech_size
                                    /\ p.color = o.color
                                    /\ p.quantity = o.quantity
                                    /\ p.labels_link # NONE
                                    /\ p.labels_link.nm_id = o.nm_id
                                    /\ p.labels_link.tech_size = o.tech_size }) = 1
              /\ Cardinality(db'.production_items \ db.production_items)
                   = Cardinality(sel)
              /\ \A o \in sel : \A c \in DocsOfGroup(db, GroupKey(o)) :
                    \E c2 \in db'.cis_labels :
                       /\ c2.id = c.id
                       /\ Len(c2.file_data) <= Len(c.file_data)
                       /\ c2.file_data = SubSeq(c.file_data, 1, Len(c2.file_data))
              /\ BagCount(db') = BagCount(db) - TotalQuantity(sel)
      ]_vars

\* an order-items request on a batch of done units
OiBatch(d, r) ==
    /\ r.op = "oi_move"
    /\ SelectedItems(d, r.ids) # {}
    /\ \A o \in SelectedItems(d, r.ids) : o.print_status = READY

\* a group the order-items route cannot process
GroupUnprocessable(d, key) ==
    \/ ~ \E p \in Products : p.nm_id = key[1]
    \/ ~ \E p \in Products, g \in ProductGroups :
            p.nm_id = key[1] /\ p.group_id = g.id /\ g.session_id = CurrentSession
    \/ DocsOfGroup(d, key) = {}

-----------------------------------------------------------------------------
(* print_tasks_routes.py: complete_print_task                              *)
(*                                                                         *)
(* Lengths of film are counted in half metres.  PrintTask.film_usage is a  *)
(* Float column and takes what update_print_task is sent (any number; 0    *)
(* stands for unset as well: the handler tests its truth).                 *)
(* Inventory.print_film is an Integer column: the value written to it is   *)
(* kept as it is by a database that stores the number it is given          *)
(* (SQLite) and rounded to whole metres by one that casts on assignment    *)
(* (PostgreSQL); config.py:14 admits both.                                 *)

HalvesPerMetre == 2

\* what an Integer column may hold after value is written to it
StoredInteger(value) ==
    IF value % HalvesPerMetre = 0 THEN {value}
    ELSE {value, value - 1, value + 1}

PrintTaskRow(id, film_usage, order_item_ids) ==
    [id |-> id, session_id |-> CurrentSession, film_usage |-> film_usage,
     order_item_ids |-> order_item_ids]

\* the whole request; stored is what the film column holds afterwards
CompletePrintTask(u, s, task_id, stored) ==
    LET op    == "complete_print_task"
        print_task == FirstRow({ t \in db.print_tasks :
                                   t.id = task_id /\ t.session_id = s })
        found == InventoryOfSession(db, s)
        inventory == IF found = NONE THEN NewInventory(db, u, s) ELSE found
        deducts == print_task.film_usage # 0 /\ print_task.film_usage > 0
        left  == inventory.print_film - print_task.film_usage
        d1    == IF deducts
                 THEN [db EXCEPT !.inventory =
                         (@ \ {inventory}) \cup {[inventory EXCEPT !.print_film = stored]}]
                 ELSE db
        ids   == print_task.order_item_ids
        d2    == [d1 EXCEPT
                    !.production_orders =
                        { IF o.order_item_id \in ids
                          THEN [o EXCEPT !.print_status = READY] ELSE o : o \in @ },
                    !.order_items = { i \in @ : i.id \notin ids },
                    !.print_tasks = @ \ {print_task}]
    IN IF print_task = NONE THEN
           /\ stored = 0
           /\ db' = db
           /\ resp' = Resp(op, {task_id}, 404, "not_found")
       ELSE IF deducts /\ inventory.print_film < print_task.film_usage THEN
           /\ stored = 0
           /\ db' = db              \* return without commit
           /\ resp' = [Resp(op, {task_id}, 400, "no_film") EXCEPT
                         !.required = print_task.film_usage,
                         !.available = inventory.print_film]
       ELSE
           /\ IF deducts THEN stored \in StoredInteger(left) ELSE stored = 0
           /\ db' = d2              \* db.session.commit()
           /\ resp' = Resp(op, {task_id}, 200, "success")

TaskIds == {1, 2}

complete_print_task ==
    /\ \E task_id \in TaskIds, stored \in 0..(HalvesPerMetre * (MaxFilm + 1)) :
          CompletePrintTask(CurrentUser, CurrentSession, task_id, stored)
    /\ UNCHANGED <<gen, race>>

-----------------------------------------------------------------------------
(* Specification SpecPrint: completions of up to two print tasks, each     *)
(* linked to the order item and the production order of its id.            *)

\* film usages a task may carry: none, fractions of a metre, whole metres,
\* and a negative number
FilmUsages == (-1)..(HalvesPerMetre * MaxFilm)

\* no ledger row, or one with 0..MaxFilm metres of film
FilmChoices ==
    { {} } \cup { { InventoryRow(1, CurrentSession, CurrentUser, 0, 0, HalvesPerMetre * m) } :
                  m \in 0..MaxFilm }

PrintDb(usage, inv) ==
    [EmptyDb EXCEPT
       !.print_tasks = { PrintTaskRow(i, usage[i], {i}) : i \in DOMAIN usage },
       !.order_items =
           { OrderItemRow(i, CHOOSE k \in LabelledKinds : k.nm_id = i, 1, IN_WORK) :
               i \in DOMAIN usage },
       !.production_orders =
           { ProductionOrderRow(i, CHOOSE k \in LabelledKinds : k.nm_id = i, 1, IN_WORK) :
               i \in DOMAIN usage },
       !.inventory = inv]

SpecPrintInit ==
    /\ db \in { PrintDb(usage, inv) :
                  usage \in UNION { [ids -> FilmUsages] : ids \in SUBSET TaskIds },
                  inv \in FilmChoices }
    /\ resp = NoResp
    /\ gen = GenIdle
    /\ race = RaceIdle

SpecPrintNext == complete_print_task

SpecPrint == SpecPrintInit /\ [][SpecPrintNext]_vars

\* the film length of the workspace (no ledger row counts as none)
FilmLength(d) ==
    IF \E i \in d.inventory : i.session_id = CurrentSession
    THEN (CHOOSE i \in d.inventory : i.session_id = CurrentSession).print_film
    ELSE 0

\* the task a completion request names
TaskOf(d, r) == { t \in d.print_tasks : t.id \in r.ids /\ t.session_id = CurrentSession }

\* C10: completing a print task that needs more film than there is changes
\* nothing (film, task, order items, production orders); completing one for
\* which the film suffices lowers the film length by exactly its usage.
C10_FilmCheck ==
    [][ \A t \in TaskOf(db, resp') :
          resp'.op = "complete_print_task" =>
             IF t.film_usage > FilmLength(db)
             THEN resp'.code = 400 /\ db' = db
             ELSE FilmLength(db') = FilmLength(db) - t.film_usage
      ]_vars

-----------------------------------------------------------------------------
(* boxes_routes.py: add_from_production, delete_box, clear_boxes           *)

\* Inventory.query.filter_by(user_id=current_user.id).first()
InventoryOfUser(d, u) == FirstRow({ i \in d.inventory : i.user_id = u })

\* str.lower() and str.upper() on the characters the model uses
Lower(c) == IF c = "T" THEN "t" ELSE IF c = "R" THEN "r" ELSE c
Upper(z) == IF z = "m" THEN "M" ELSE IF z = "l" THEN "L" ELSE z
LowerAll(w) == [i \in 1..Len(w) |-> Lower(w[i])]

\* subject_name.split()[0]: the characters before the first blank
RECURSIVE FirstWord(_)
FirstWord(w) ==
    IF w = <<>> \/ Head(w) = " " THEN <<>> ELSE <<Head(w)>> \o FirstWord(Tail(w))

\* fg.product_name.lower().startswith(first_word.lower())
StartsWith(name, word) ==
    /\ Len(word) <= Len(name)
    /\ SubSeq(LowerAll(name), 1, Len(word)) = LowerAll(word)

\* the best-effort deduction from the finished goods of the user: the first
\* stock row whose name starts with the first word of the subject and whose
\* color is the item's; lowered only if the size is there and suffices
DeductFinishedGoods(d, u, prod_item) ==
    LET product_db == ProductByNmId(prod_item.nm_id)
        first_word == FirstWord(product_db.subject)
        hits == { fg \in d.finished_goods :
                    /\ fg.user_id = u
                    /\ fg.product_name # <<>> /\ fg.color # "" /\ first_word # <<>>
                    /\ StartsWith(fg.product_name, first_word)
                    /\ fg.color = prod_item.color }
        finished_good == FirstRow(hits)
        size_key == Upper(prod_item.tech_size)
    IN IF product_db = NONE THEN d.finished_goods
       ELSE IF product_db.subject = <<>> \/ prod_item.color = "" THEN d.finished_goods
       ELSE IF finished_good = NONE THEN d.finished_goods
       ELSE IF size_key \notin DOMAIN finished_good.sizes_stock THEN d.finished_goods
       ELSE IF finished_good.sizes_stock[size_key] < prod_item.quantity
            THEN d.finished_goods
       ELSE (d.finished_goods \ {finished_good}) \cup
            { [finished_good EXCEPT !.sizes_stock[size_key] = @ - prod_item.quantity] }

\* A merge that writes the quantity of the unit over the box item's.
BoxAddItemOverwriting(acc, u, box, prod_item) ==
    LET product == ProductByNmId(prod_item.nm_id)
        barcode == IF product = NONE THEN NONE
                   ELSE get_sku_for_size(product, prod_item.tech_size)
        existing_item == FirstRow({ b \in acc.d.box_items :
                                      /\ b.box_id = box.id
                                      /\ b.nm_id = prod_item.nm_id
                                      /\ b.tech_size = prod_item.tech_size })
        items1 == IF existing_item # NONE
                  THEN (acc.d.box_items \ {existing_item}) \cup
                       { [existing_item EXCEPT !.quantity = prod_item.quantity] }
                  ELSE acc.d.box_items \cup
                       { [id |-> NextId(acc.d.box_items), box_id |-> box.id,
                          nm_id |-> prod_item.nm_id, tech_size |-> prod_item.tech_size,
                          barcode |-> barcode, quantity |-> prod_item.quantity] }
    IN [acc EXCEPT
          !.d = [acc.d EXCEPT
                   !.box_items = items1,
                   !.finished_goods = DeductFinishedGoods(acc.d, u, prod_item),
                   !.production_items = @ \ {prod_item}],
          !.total_items_quantity = @ + prod_item.quantity,
          !.added_count = @ + 1]

\* the body of "for prod_item in items": merge into the box item of the
\* same product and size or create one, count the quantity, lower the
\* finished goods, delete the production item
BoxAddItem(acc, u, box, prod_item) ==
    LET product == ProductByNmId(prod_item.nm_id)
        barcode == IF product = NONE THEN NONE
                   ELSE get_sku_for_size(product, prod_item.tech_size)
        existing_item == FirstRow({ b \in acc.d.box_items :
                                      /\ b.box_id = box.id
                                      /\ b.nm_id = prod_item.nm_id
                                      /\ b.tech_size = prod_item.tech_size })
        items1 == IF existing_item # NONE
                  THEN (acc.d.box_items \ {existing_item}) \cup
                       { [existing_item EXCEPT !.quantity = @ + prod_item.quantity] }
                  ELSE acc.d.box_items \cup
                       { [id |-> NextId(acc.d.box_items), box_id |-> box.id,
                          nm_id |-> prod_item.nm_id, tech_size |-> prod_item.tech_size,
                          barcode |-> barcode, quantity |-> prod_item.quantity] }
    IN [acc EXCEPT
          !.d = [acc.d EXCEPT
                   !.box_items = items1,
                   !.finished_goods = DeductFinishedGoods(acc.d, u, prod_item),
                   !.production_items = @ \ {prod_item}],
          !.total_items_quantity = @ + prod_item.quantity,
          !.added_count = @ + 1]

RECURSIVE BoxAddItems(_, _, _, _)
BoxAddItems(acc, u, box, items) ==
    IF items = <<>> THEN acc
    ELSE BoxAddItems(BoxAddItem(acc, u, box, Head(items)), u, box, Tail(items))

\* the body of "for box_number, items": find the box of that number or
\* create it, then add the items
BoxAddGroup(acc, u, s, box_number, items) ==
    LET found == FirstRow({ b \in acc.d.boxes :
                              b.session_id = s /\ b.box_number = box_number })
        box   == IF found # NONE THEN found
                 ELSE [id |-> NextId(acc.d.boxes), session_id |-> s, user_id |-> u,
                       box_number |-> box_number, wb_box_id |-> "",
                       selected |-> FALSE, delivery_date |-> "",
                       delivery_number |-> "", warehouse |-> ""]
        acc1  == IF found # NONE THEN acc
                 ELSE [acc EXCEPT !.d.boxes = @ \cup {box}, !.boxes_created = @ + 1]
    IN BoxAddItems(acc1, u, box, items)

RECURSIVE BoxNumbers(_, _)
\* the keys of items_by_box in insertion order
BoxNumbers(items, seen) ==
    IF items = <<>> THEN seen
    ELSE BoxNumbers(Tail(items),
                    IF \E i \in 1..Len(seen) : seen[i] = Head(items).box_number
                    THEN seen ELSE Append(seen, Head(items).box_number))

RECURSIVE BoxAddGroups(_, _, _, _, _)
BoxAddGroups(acc, u, s, numbers, rows) ==
    IF numbers = <<>> THEN acc
    ELSE BoxAddGroups(
            BoxAddGroup(acc, u, s, Head(numbers),
                        SelectSeq(rows, LAMBDA r : r.box_number = Head(numbers))),
            u, s, Tail(numbers), rows)

\* the whole request (the user has a marketplace API key)
AddFromProduction(u, s) ==
    LET op   == "add_from_production"
        rows == RowsInOrder({ p \in db.production_items :
                                p.session_id = s /\ p.selected /\ p.box_number # "" })
        start == [d |-> db, added_count |-> 0, boxes_created |-> 0,
                  total_items_quantity |-> 0]
        done  == BoxAddGroups(start, u, s, BoxNumbers(rows, <<>>), rows)
        total == done.total_items_quantity
        inventory == InventoryOfUser(done.d, u)
    IN IF rows = <<>> THEN
           db' = db /\ resp' = Resp(op, {}, 400, "nothing_selected")
       ELSE IF inventory = NONE THEN
           \* Inventory(user_id=...) has no session_id: the flush fails
           db' = db /\ resp' = Resp(op, {}, 500, "error")
       ELSE IF inventory.bags_25x30 < total THEN
           /\ db' = db              \* return without commit
           /\ resp' = [Resp(op, {}, 400, "no_bags") EXCEPT
                         !.required = total, !.available = inventory.bags_25x30]
       ELSE IF inventory.boxes_60x40x40 < done.boxes_created THEN
           /\ db' = db              \* return without commit
           /\ resp' = [Resp(op, {}, 400, "no_boxes") EXCEPT
                         !.required = done.boxes_created,
                         !.available = inventory.boxes_60x40x40]
       ELSE
           /\ db' = [done.d EXCEPT !.inventory =
                       (@ \ {inventory}) \cup
                       { [inventory EXCEPT
                            !.bags_25x30 = @ - total,
                            !.boxes_60x40x40 = @ - done.boxes_created] }]
           /\ resp' = [Resp(op, {}, 200, "success") EXCEPT
                         !.moved = done.added_count, !.labels = done.boxes_created]

\* sum(item.quantity for item in box.items) over a set of boxes
BoxedQuantity(d, box_ids) ==
    LET items == { b \in d.box_items : b.box_id \in box_ids }
    IN SumOver({ b.id : b \in items },
               [i \in { b.id : b \in items } |->
                   (CHOOSE b \in items : b.id = i).quantity])

\* the whole request: the bags of the items and one box go back to the
\* ledger row of the user, the box goes with its items (ORM cascade)
DeleteBox(u, s, box_id) ==
    LET op  == "delete_box"
        box == FirstRow({ b \in db.boxes : b.id = box_id /\ b.session_id = s })
        inventory == InventoryOfUser(db, u)
    IN IF box = NONE THEN
           db' = db /\ resp' = Resp(op, {box_id}, 404, "not_found")
       ELSE IF inventory = NONE THEN
           \* bags_25x30 of the fresh Inventory is None: += raises
           db' = db /\ resp' = Resp(op, {box_id}, 500, "error")
       ELSE
           /\ db' = [db EXCEPT
                       !.inventory = (@ \ {inventory}) \cup
                          { [inventory EXCEPT
                               !.bags_25x30 = @ + BoxedQuantity(db, {box.id}),
                               !.boxes_60x40x40 = @ + 1] },
                       !.boxes = @ \ {box},
                       !.box_items = { b \in @ : b.box_id # box.id }]
           /\ resp' = Resp(op, {box_id}, 200, "success")

\* the whole request.  Box.query...delete() is a bulk DELETE: the items of
\* the boxes stay behind where the database does not enforce the foreign
\* key (enforced = FALSE), and the statement fails where it does.
ClearBoxes(u, s, enforced) ==
    LET op    == "clear_boxes"
        boxes == { b \in db.boxes : b.session_id = s }
        ids   == { b.id : b \in boxes }
        inventory == InventoryOfUser(db, u)
    IN IF boxes = {} THEN
           ~enforced /\ db' = db /\ resp' = Resp(op, {}, 200, "nothing")
       ELSE IF inventory = NONE THEN
           ~enforced /\ db' = db /\ resp' = Resp(op, {}, 500, "error")
       ELSE IF enforced /\ \E b \in db.box_items : b.box_id \in ids THEN
           db' = db /\ resp' = Resp(op, ids, 500, "error")
       ELSE
           /\ ~enforced
           /\ db' = [db EXCEPT
                       !.inventory = (@ \ {inventory}) \cup
                          { [inventory EXCEPT
                               !.bags_25x30 = @ + BoxedQuantity(db, ids),
                               !.boxes_60x40x40 = @ + Cardinality(boxes)] },
                       !.boxes = @ \ boxes]
           /\ resp' = [Resp(op, ids, 200, "success") EXCEPT
                         !.moved = Cardinality(boxes)]

BoxIds == {1, 2}

add_from_production ==
    /\ AddFromProduction(CurrentUser, CurrentSession)
    /\ UNCHANGED <<gen, race>>

delete_box ==
    /\ \E box_id \in BoxIds : DeleteBox(CurrentUser, CurrentSession, box_id)
    /\ UNCHANGED <<gen, race>>

clear_boxes ==
    /\ \E enforced \in BOOLEAN : ClearBoxes(CurrentUser, CurrentSession, enforced)
    /\ UNCHANGED <<gen, race>>

-----------------------------------------------------------------------------
(* Specification Spec: the stages together.  A unit waits in print (print  *)
(* task 1 with its order item and its production order), a second one is   *)
(* an order item already printed, a third one is in production with its    *)
(* box number set and selected; the ledger starts with non-negative        *)
(* counts.                                                                 *)

MaxBoxes == 1       \* largest initial box count

Kind(nm_id, tech_size) ==
    CHOOSE k \in UnitKinds : k.nm_id = nm_id /\ k.tech_size = tech_size

SeedUsages == {1, HalvesPerMetre}

\* a production item as the move leaves it, then given a box number and
\* selected (update_production_item)
SeedProductionItem(q) ==
    [ProductionItemRow(1, CurrentUser, CurrentSession,
                       ProductionOrderRow(3, Kind(1, "M"), q, READY), 3,
                       LabelsFile(1, "M", <<>>))
       EXCEPT !.box_number = "b1", !.selected = TRUE]

SeedFinishedGoods ==
    { [id |-> 1, user_id |-> CurrentUser, product_name |-> <<"t", "s", " ", "x">>,
       color |-> "red", sizes_stock |-> [z \in {"M"} |-> 1]] }

SeedDb(usage, q1, second, third, bags, boxes, film) ==
    [EmptyDb EXCEPT
       !.print_tasks = { PrintTaskRow(1, usage, {1}) },
       !.order_items = { OrderItemRow(1, Kind(1, "M"), q1, IN_WORK) } \cup second,
       !.production_orders = { ProductionOrderRow(1, Kind(1, "M"), q1, IN_WORK) },
       !.production_items = third,
       !.cis_labels = { CisLabelRow(SubSeq(SourcePages, 1, MaxPages)) },
       !.finished_goods = SeedFinishedGoods,
       !.inventory = { InventoryRow(1, CurrentSession, CurrentUser, bags, boxes, film) }]

Init ==
    /\ db \in { SeedDb(usage, q1, second, third, bags, boxes, HalvesPerMetre * m) :
                  usage \in SeedUsages,
                  q1 \in {MaxQty},
                  second \in { {} } \cup
                             { { OrderItemRow(2, Kind(2, "M"), q, READY) } : q \in {1} },
                  third \in { {} } \cup { { SeedProductionItem(q) } : q \in Quantities },
                  bags \in 0..MaxBags,
                  boxes \in 0..MaxBoxes,
                  m \in {0, 1} }
    /\ resp = NoResp
    /\ gen = GenIdle
    /\ race = RaceIdle

Next ==
    \/ complete_print_task
    \/ po_move_to_production
    \/ oi_move_to_production
    \/ add_from_production
    \/ delete_box
    \/ clear_boxes

Spec == Init /\ [][Next]_vars

-----------------------------------------------------------------------------
(* Two requests to production_orders_routes.move_to_production in flight.  *)
(*                                                                         *)
(* Each request runs in its own database session.  It first reads: the     *)
(* selected rows, the checks of STEP 1 and, for STEP 2, the label source    *)
(* (the CISLabel object stays in its session as it was read).  Later it    *)
(* generates the labels from what it read and writes: the UPDATE of the    *)
(* source (sent by the autoflush of the next query) carries the whole new  *)
(* document and holds the row until the commit, so the rest of the request *)
(* (items, ledger read, check, deduction, commit) is not interleaved with  *)
(* the writes of the other request.  Nothing in the handler locks or       *)
(* re-reads the source between the two steps.                              *)

Requests == {"A", "B"}

\* the row each request selects
RaceIds(r) == IF r = "A" THEN {1} ELSE {2}

RaceStart(d) ==
    [phase |-> "on", init |-> d,
     req |-> [r \in Requests |-> [pc |-> "start", read |-> EmptyDb, resp |-> NoResp]]]

\* the request up to the query of the label source of STEP 2
race_load(r) ==
    /\ race.phase = "on"
    /\ race.req[r].pc = "start"
    /\ LET op   == "po_move"
           rows == RowsInOrder({ o \in db.production_orders :
                                   o.id \in RaceIds(r) /\ o.session_id = CurrentSession })
           keys == GroupKeys(rows, <<>>)
           errors == PoValidationErrors(db, CurrentSession, keys, rows)
           answer(a) == [race EXCEPT !.req[r] = [pc |-> "done", read |-> EmptyDb,
                                                 resp |-> a]]
       IN IF rows = <<>> THEN
              race' = answer(Resp(op, RaceIds(r), 404, "not_found"))
          ELSE IF ItemsNotReady(rows) # <<>> THEN
              race' = answer(Resp(op, RaceIds(r), 400, "not_ready"))
          ELSE IF errors # <<>> THEN
              race' = answer([Resp(op, RaceIds(r), 400, "validation") EXCEPT
                                !.detail = errors])
          ELSE
              race' = [race EXCEPT !.req[r].pc = "loaded", !.req[r].read = db]
    /\ UNCHANGED <<db, resp, gen>>

\* the rest of the request: labels from the source as it was read, the
\* writes, the ledger, commit or rollback; raised: the try block raises
RaceFinish(r, raised) ==
    LET op   == "po_move"
        mine == race.req[r].read
        rows == RowsInOrder({ o \in mine.production_orders :
                                o.id \in RaceIds(r) /\ o.session_id = CurrentSession })
        keys == GroupKeys(rows, <<>>)
        view == [db EXCEPT !.cis_labels = mine.cis_labels]
        start == [d |-> view, total_items_quantity |-> 0, moved_count |-> 0,
                  labels_generated |-> 0]
        done  == PoMoveGroups(start, CurrentUser, CurrentSession, keys, rows)
        total == done.total_items_quantity
        found == InventoryOfSession(done.d, CurrentSession)
        inventory == IF found = NONE
                     THEN NewInventory(done.d, CurrentUser, CurrentSession) ELSE found
        answer(a) == [race EXCEPT !.req[r] = [pc |-> "done", read |-> EmptyDb,
                                              resp |-> a]]
    IN IF raised THEN
           /\ db' = db
           /\ race' = answer(Resp(op, RaceIds(r), 500, "label_error"))
       ELSE IF total > 0 /\ inventory.bags_25x30 < total THEN
           /\ db' = db
           /\ race' = answer([Resp(op, RaceIds(r), 400, "no_bags") EXCEPT
                                !.required = total,
                                !.available = inventory.bags_25x30])
       ELSE
           /\ db' = IF total > 0
                    THEN [done.d EXCEPT !.inventory =
                            (@ \ {inventory}) \cup
                            { [inventory EXCEPT !.bags_25x30 = @ - total] }]
                    ELSE done.d
           /\ race' = answer([Resp(op, RaceIds(r), 200, "success") EXCEPT
                                !.moved = done.moved_count,
                                !.labels = done.labels_generated])

race_finish(r) ==
    /\ race.phase = "on"
    /\ race.req[r].pc = "loaded"
    /\ \E raised \in BOOLEAN : RaceFinish(r, raised)
    /\ UNCHANGED <<resp, gen>>

-----------------------------------------------------------------------------
(* Specification SpecRace: two requests, each for one unit of the same     *)
(* product and size, on one label source and one ledger row.               *)

RaceDb(p, qa, qb, bags) ==
    [EmptyDb EXCEPT
       !.production_orders = { ProductionOrderRow(1, Kind(1, "M"), qa, READY),
                               ProductionOrderRow(2, Kind(1, "M"), qb, READY) },
       !.cis_labels = { CisLabelRow(SubSeq(SourcePages, 1, p)) },
       !.inventory = { InventoryRow(1, CurrentSession, CurrentUser, bags, 0, 0) }]

SpecRaceInit ==
    /\ db \in { RaceDb(p, qa, qb, bags) :
                  p \in 1..MaxPages, qa \in 1..MaxQty, qb \in 1..MaxQty,
                  bags \in 0..(2 * MaxBags) }
    /\ race = RaceStart(db)
    /\ resp = NoResp
    /\ gen = GenIdle

SpecRaceNext == \E r \in Requests : race_load(r) \/ race_finish(r)

SpecRace == SpecRaceInit /\ [][SpecRaceNext]_vars

\* the pages a request's labels were made from
PagesUsedBy(d, r) ==
    UNION { { p.labels_link.pages[i].dm : i \in 1..Len(p.labels_link.pages) } :
              p \in { x \in d.production_items : x.order_item_id \in RaceIds(r) } }

\* the remaining pages of the one label source
SourceLength(d) == Len((CHOOSE c \in d.cis_labels : TRUE).file_data)

-----------------------------------------------------------------------------
(* print_tasks_routes.py: copy_from_order; orders_routes.py:               *)
(* update_order_item                                                       *)
(*                                                                         *)
(* The items of an order carry the vendor code, brand and title of the     *)
(* card of their nm_id (orders_routes.py:102-104), so the vendor code of   *)
(* the grouping key follows the nm_id and is left out of the rows.         *)

\* print_status of an order item nobody has touched (the column is NULL)
UNSET == ""

\* key = (item.nm_id, item.vendor_code or '', item.brand or '', ...)
CopyKey(item) == <<item.nm_id, item.brand, item.title, item.color>>

RECURSIVE CopyKeys(_, _)
\* the keys of grouped_items in insertion order
CopyKeys(items, seen) ==
    IF items = <<>> THEN seen
    ELSE LET k == CopyKey(Head(items))
         IN CopyKeys(Tail(items),
                     IF \E i \in 1..Len(seen) : seen[i] = k THEN seen
                     ELSE Append(seen, k))

\* PrintTask.query.filter_by(session_id, nm_id, vendor_code, brand, title,
\*                           color).first()
ExistingTask(d, s, first_item) ==
    FirstRow({ t \in d.print_tasks :
                 /\ t.session_id = s
                 /\ t.nm_id = first_item.nm_id
                 /\ t.brand = first_item.brand
                 /\ t.title = first_item.title
                 /\ t.color = first_item.color })

\* PrintTask(...) of a group, film_usage not set
NewPrintTask(id, s, first_item, total_qty, order_item_ids) ==
    [id |-> id, session_id |-> s, film_usage |-> 0,
     order_item_ids |-> order_item_ids,
     nm_id |-> first_item.nm_id, brand |-> first_item.brand,
     title |-> first_item.title, color |-> first_item.color,
     tech_size |-> "", quantity |-> total_qty, print_status |-> IN_WORK]

\* A merge that adds the copied total to the quantity the task had.
MergeQuantityAdding(d, task, merged_ids, total_qty) == task.quantity + total_qty

\* existing_task.quantity = sum(item.quantity for item in all_items), where
\* all_items are the order items whose id is in merged_ids
MergeQuantity(d, task, merged_ids, total_qty) ==
    LET all_items == { i \in d.order_items : i.id \in merged_ids }
    IN SumOver({ i.id : i \in all_items },
               [id \in { i.id : i \in all_items } |->
                   (CHOOSE i \in all_items : i.id = id).quantity])

RECURSIVE AddProductionOrders(_, _, _)
\* one ProductionOrder per copied item
AddProductionOrders(d, s, items) ==
    IF items = <<>> THEN d
    ELSE LET item == Head(items)
             row  == [ProductionOrderRow(NextId(d.production_orders), item,
                                         item.quantity, IN_WORK)
                        EXCEPT !.session_id = s, !.order_item_id = item.id]
         IN AddProductionOrders(
                [d EXCEPT !.production_orders = @ \cup {row}], s, Tail(items))

\* the body of the loop over grouped_items for one group; acc carries the
\* session's view of the database and the two counters
CopyGroup(acc, s, items) ==
    LET d         == acc.db
        total_qty == SeqQuantity(items)
        first_item == Head(items)
        order_item_ids == { items[i].id : i \in 1..Len(items) }
        existing_task == ExistingTask(d, s, first_item)
        merged_ids == existing_task.order_item_ids \cup order_item_ids
        d1 == IF existing_task # NONE
              THEN [d EXCEPT !.print_tasks = (@ \ {existing_task}) \cup
                      {[existing_task EXCEPT
                          !.order_item_ids = merged_ids,
                          !.quantity = MergeQuantity(d, existing_task, merged_ids, total_qty),
                          !.print_status = IN_WORK]}]
              ELSE [d EXCEPT !.print_tasks = @ \cup
                      {NewPrintTask(NextId(d.print_tasks), s, first_item,
                                    total_qty, order_item_ids)}]
        d2 == [d1 EXCEPT !.order_items =
                 { IF i.id \in order_item_ids
                   THEN [i EXCEPT !.print_status = IN_WORK] ELSE i : i \in @ }]
    IN IF total_qty = 0
       THEN [acc EXCEPT
               !.db = [d EXCEPT !.order_items = { i \in @ : i.id \notin order_item_ids }],
               !.deleted_count = @ + Len(items)]
       ELSE [acc EXCEPT
               !.db = AddProductionOrders(d2, s, items),
               !.copied_count = IF existing_task = NONE THEN @ + 1 ELSE @]

RECURSIVE CopyGroups(_, _, _, _)
CopyGroups(acc, s, keys, rows) ==
    IF keys = <<>> THEN acc
    ELSE CopyGroups(
             CopyGroup(acc, s, SelectSeq(rows, LAMBDA it : CopyKey(it) = Head(keys))),
             s, Tail(keys), rows)

\* the whole request
CopyFromOrder(u, s, order_id, item_ids) ==
    LET op   == "copy_from_order"
        order_items == RowsInOrder({ i \in db.order_items :
                                       i.id \in item_ids /\ i.order_id = order_id })
        items_already_ready ==
            SelectSeq(order_items, LAMBDA i : i.print_status = READY)
        done == CopyGroups([db |-> db, copied_count |-> 0, deleted_count |-> 0],
                           s, CopyKeys(order_items, <<>>), order_items)
    IN IF item_ids = {} THEN
           /\ db' = db
           /\ resp' = Resp(op, item_ids, 400, "nothing_selected")
       ELSE IF order_items = <<>> THEN
           /\ db' = db
           /\ resp' = Resp(op, item_ids, 404, "not_found")
       ELSE IF items_already_ready # <<>> THEN
           /\ db' = db
           /\ resp' = Resp(op, item_ids, 400, "already_ready")
       ELSE
           /\ db' = done.db          \* db.session.commit()
           /\ resp' = [Resp(op, item_ids, 200, "success") EXCEPT
                         !.moved = done.copied_count,
                         !.more = done.deleted_count]

\* the whole request; data holds the fields the client sent
UpdateOrderItem(s, order_id, item_id, data) ==
    LET op   == "update_order_item"
        item == FirstRow({ i \in db.order_items :
                             i.id = item_id /\ i.order_id = order_id })
        set_quantity == IF "quantity" \in DOMAIN data
                        THEN [item EXCEPT !.quantity = data.quantity] ELSE item
        set_status   == IF "print_status" \in DOMAIN data
                        THEN [set_quantity EXCEPT !.print_status = data.print_status]
                        ELSE set_quantity
    IN IF item = NONE THEN
           /\ db' = db
           /\ resp' = Resp(op, {item_id}, 404, "not_found")
       ELSE
           /\ db' = [db EXCEPT !.order_items = (@ \ {item}) \cup {set_status}]
           /\ resp' = Resp(op, {item_id}, 200, "success")

-----------------------------------------------------------------------------
(* Specification SpecCopy: one order with three items (two sizes of one    *)
(* product, one of another) as create_order leaves them, edited and        *)
(* copied into the print queue in any order.                               *)

\* the production-order rows a run may pile up
MaxOrders == 2

ItemIds == {1, 2, 3}

\* create_order: quantity=0 and no print status for every size of a card
CopyDb ==
    [EmptyDb EXCEPT !.order_items =
        { OrderItemRow(1, CHOOSE k \in UnitKinds : k.nm_id = 1 /\ k.tech_size = "M", 0, UNSET),
          OrderItemRow(2, CHOOSE k \in UnitKinds : k.nm_id = 1 /\ k.tech_size = "L", 0, UNSET),
          OrderItemRow(3, CHOOSE k \in UnitKinds : k.nm_id = 2 /\ k.tech_size = "M", 0, UNSET) }]

copy_from_order ==
    /\ \E item_ids \in SUBSET ItemIds :
          /\ Cardinality(db.production_orders) + Cardinality(item_ids) <= MaxOrders
          /\ CopyFromOrder(CurrentUser, CurrentSession, TheOrder, item_ids)
    /\ UNCHANGED <<gen, race>>

update_order_item ==
    /\ \E item_id \in ItemIds, q \in Quantities :
          UpdateOrderItem(CurrentSession, TheOrder, item_id, [quantity |-> q])
    /\ UNCHANGED <<gen, race>>

SpecCopyInit ==
    /\ db = CopyDb
    /\ resp = NoResp
    /\ gen = GenIdle
    /\ race = RaceIdle

SpecCopyNext == copy_from_order \/ update_order_item

SpecCopy == SpecCopyInit /\ [][SpecCopyNext]_vars

\* the key a print task stands for (a task of copy_from_order has no size)
TaskKey(t) == <<t.nm_id, t.brand, t.title, t.color>>

\* the order items a copy request selects
CopiedRows(d, r) == { i \in d.order_items : i.id \in r.ids /\ i.order_id = TheOrder }

\* the rows of a request that fall under the key of task t
CopiedInto(d, r, t) == { i \in CopiedRows(d, r) : CopyKey(i) = TaskKey(t) }

QuantityOf(rows) ==
    SumOver({ i.id : i \in rows },
            [id \in { i.id : i \in rows } |-> (CHOOSE i \in rows : i.id = id).quantity])

OneTaskPerKey(d) ==
    \A t, o \in d.print_tasks :
        (t.session_id = o.session_id /\ TaskKey(t) = TaskKey(o)) => t = o

-----------------------------------------------------------------------------
(* boxes_routes.py: update_box; deliveries_routes.py: add_from_boxes,      *)
(* update_status, delete_delivery, clear_deliveries                        *)

ARCHIVED == "V ARHIVE"      \* the second delivery status, transliterated

\* the fields update_box takes from the request
BoxFields == {"wb_box_id", "selected", "delivery_number", "warehouse", "delivery_date"}

\* the whole request; data maps the fields the client sent to their values
UpdateBox(s, box_id, data) ==
    LET op  == "update_box"
        box == FirstRow({ b \in db.boxes : b.id = box_id /\ b.session_id = s })
    IN IF box = NONE THEN
           db' = db /\ resp' = Resp(op, {box_id}, 404, "not_found")
       ELSE
           /\ db' = [db EXCEPT !.boxes = (@ \ {box}) \cup
                       { [f \in DOMAIN box |->
                            IF f \in DOMAIN data THEN data[f] ELSE box[f]] }]
           /\ resp' = Resp(op, {box_id}, 200, "success")

\* A check that stops at the first field a box lacks.
MissingOfBoxFirstOnly(box) ==
    IF box.delivery_date = "" THEN << <<box.box_number, "delivery_date">> >>
    ELSE IF box.delivery_number = "" THEN << <<box.box_number, "delivery_number">> >>
    ELSE IF box.warehouse = "" THEN << <<box.box_number, "warehouse">> >>
    ELSE <<>>

\* the three checks of one box, in the order the handler makes them
MissingOfBox(box) ==
    (IF box.delivery_date = "" THEN << <<box.box_number, "delivery_date">> >> ELSE <<>>)
    \o (IF box.delivery_number = "" THEN << <<box.box_number, "delivery_number">> >> ELSE <<>>)
    \o (IF box.warehouse = "" THEN << <<box.box_number, "warehouse">> >> ELSE <<>>)

RECURSIVE MissingInfo(_)
\* missing_info: one line per box and missing field
MissingInfo(boxes) ==
    IF boxes = <<>> THEN <<>>
    ELSE MissingOfBox(Head(boxes)) \o MissingInfo(Tail(boxes))

\* A grouping that leaves the delivery number out.
DeliveryKeyNoNumber(box) == <<box.delivery_date, "", box.warehouse>>

\* key = (box.delivery_date, box.delivery_number, box.warehouse)
DeliveryKey(box) == <<box.delivery_date, box.delivery_number, box.warehouse>>

RECURSIVE DeliveryKeys(_, _)
\* the keys of deliveries_map in insertion order
DeliveryKeys(boxes, seen) ==
    IF boxes = <<>> THEN seen
    ELSE LET k == DeliveryKey(Head(boxes))
         IN DeliveryKeys(Tail(boxes),
                         IF \E i \in 1..Len(seen) : seen[i] = k THEN seen
                         ELSE Append(seen, k))

\* box.items: the items whose box_id is the box's
ItemsOfBox(d, box) == RowsInOrder({ b \in d.box_items : b.box_id = box.id })

\* DeliveryBox.set_items(items_data): the JSON text of the list of
\* {'nm_id', 'tech_size', 'barcode', 'quantity'} objects, as the sequence
\* of its objects, each the sequence of its name/value pairs
set_items(items) ==
    [i \in 1..Len(items) |->
        << <<"nm_id", items[i].nm_id>>, <<"tech_size", items[i].tech_size>>,
           <<"barcode", items[i].barcode>>, <<"quantity", items[i].quantity>> >>]

\* DeliveryBox.get_items(): the objects of the JSON text as dicts
get_items(items_json) ==
    [i \in 1..Len(items_json) |->
        [nm_id |-> items_json[i][1][2], tech_size |-> items_json[i][2][2],
         barcode |-> items_json[i][3][2], quantity |-> items_json[i][4][2]]]

RECURSIVE AddDeliveryBoxes(_, _, _)
\* "for box in box_group": snapshot, DeliveryBox, delete the box (its items
\* go with it, ORM cascade)
AddDeliveryBoxes(d, delivery, box_group) ==
    IF box_group = <<>> THEN d
    ELSE LET box == Head(box_group)
             delivery_box ==
                 [id |-> NextId(d.delivery_boxes), delivery_id |-> delivery.id,
                  box_number |-> box.box_number, wb_box_id |-> box.wb_box_id,
                  items_json |-> set_items(ItemsOfBox(d, box))]
         IN AddDeliveryBoxes(
                [d EXCEPT !.delivery_boxes = @ \cup {delivery_box},
                          !.boxes = @ \ {box},
                          !.box_items = { b \in @ : b.box_id # box.id }],
                delivery, Tail(box_group))

RECURSIVE AddDeliveries(_, _, _, _, _, _)
\* "for (delivery_date, delivery_number, warehouse), box_group": one
\* Delivery per key; failed are the deliveries whose barcode sheets could
\* not be made afterwards (logged, the request goes on)
AddDeliveries(acc, u, s, keys, boxes, failed) ==
    IF keys = <<>> THEN acc
    ELSE LET key == Head(keys)
             id  == NextId(acc.d.deliveries)
             delivery ==
                 [id |-> id, user_id |-> u, session_id |-> s,
                  delivery_date |-> key[1], delivery_number |-> key[2],
                  warehouse |-> key[3], status |-> READY,
                  barcode_pdf |-> IF id \in failed THEN "" ELSE "pdf"]
             d1  == [acc.d EXCEPT !.deliveries = @ \cup {delivery}]
         IN AddDeliveries(
                [d |-> AddDeliveryBoxes(d1, delivery,
                                        SelectSeq(boxes, LAMBDA b : DeliveryKey(b) = key)),
                 created |-> acc.created \cup {id}],
                u, s, Tail(keys), boxes, failed)

\* the whole request
AddFromBoxes(u, s, failed) ==
    LET op    == "add_from_boxes"
        boxes == RowsInOrder({ b \in db.boxes : b.session_id = s /\ b.selected })
        ids   == { boxes[i].id : i \in 1..Len(boxes) }
        missing_info == MissingInfo(boxes)
        done  == AddDeliveries([d |-> db, created |-> {}], u, s,
                               DeliveryKeys(boxes, <<>>), boxes, failed)
    IN IF boxes = <<>> THEN
           failed = {} /\ db' = db /\ resp' = Resp(op, {}, 400, "nothing_selected")
       ELSE IF missing_info # <<>> THEN
           /\ failed = {}
           /\ db' = db
           /\ resp' = [Resp(op, ids, 400, "missing_info") EXCEPT !.detail = missing_info]
       ELSE
           /\ failed \subseteq done.created
           /\ db' = done.d           \* db.session.commit(), twice
           /\ resp' = [Resp(op, ids, 200, "success") EXCEPT
                         !.moved = Cardinality(done.created)]

\* the whole request
UpdateStatus(s, delivery_id, status) ==
    LET op == "update_status"
        delivery == FirstRow({ x \in db.deliveries :
                                 x.id = delivery_id /\ x.session_id = s })
    IN IF delivery = NONE THEN
           db' = db /\ resp' = Resp(op, {delivery_id}, 404, "not_found")
       ELSE IF status \notin {READY, ARCHIVED} THEN
           db' = db /\ resp' = Resp(op, {delivery_id}, 400, "bad_status")
       ELSE
           /\ db' = [db EXCEPT !.deliveries =
                       (@ \ {delivery}) \cup {[delivery EXCEPT !.status = status]}]
           /\ resp' = Resp(op, {delivery_id}, 200, "success")

\* the whole request: the delivery goes with its boxes (ORM cascade)
DeleteDelivery(s, delivery_id) ==
    LET op == "delete_delivery"
        delivery == FirstRow({ x \in db.deliveries :
                                 x.id = delivery_id /\ x.session_id = s })
    IN IF delivery = NONE THEN
           db' = db /\ resp' = Resp(op, {delivery_id}, 404, "not_found")
       ELSE
           /\ db' = [db EXCEPT
                       !.deliveries = @ \ {delivery},
                       !.delivery_boxes = { b \in @ : b.delivery_id # delivery.id }]
           /\ resp' = Resp(op, {delivery_id}, 200, "success")

\* the whole request.  Delivery.query...delete() is a bulk DELETE: the
\* delivery boxes stay behind where the database does not enforce the
\* foreign key (enforced = FALSE), and the statement fails where it does.
ClearDeliveries(s, enforced) ==
    LET op  == "clear_deliveries"
        deliveries == { x \in db.deliveries : x.session_id = s }
        ids == { x.id : x \in deliveries }
    IN IF deliveries = {} THEN
           ~enforced /\ db' = db /\ resp' = Resp(op, {}, 200, "nothing")
       ELSE IF enforced /\ \E b \in db.delivery_boxes : b.delivery_id \in ids THEN
           db' = db /\ resp' = Resp(op, ids, 500, "error")
       ELSE
           /\ ~enforced
           /\ db' = [db EXCEPT !.deliveries = @ \ deliveries]
           /\ resp' = [Resp(op, ids, 200, "success") EXCEPT
                         !.moved = Cardinality(deliveries)]

-----------------------------------------------------------------------------
(* Specification SpecBox: in-production units with their box numbers set   *)
(* and selected are boxed; boxes are deleted and cleared; a delivery made  *)
(* earlier is deleted or cleared.                                          *)
(*                                                                         *)
(* A ledger row is made by the request that first needs one, with the      *)
(* user and the workspace of that request (production_orders_routes.py:    *)
(* 318, print_tasks_routes.py:275).  A user who works in two workspaces    *)
(* (sessions_routes.py:236 switches the active one) therefore has a row in *)
(* each; OtherSession is the workspace the user worked in first.           *)

OtherSession == "s2"

\* a selected in-production unit with its box number
BoxSeedItem(id, k, q, box_number) ==
    [ProductionItemRow(id, CurrentUser, CurrentSession,
                       ProductionOrderRow(id, k, q, READY), id,
                       LabelsFile(k.nm_id, k.tech_size, <<>>))
       EXCEPT !.box_number = box_number, !.selected = TRUE]

\* the second unit: none, the same product and size or another product,
\* in the same box or in another one
SecondUnits ==
    { {} } \cup
    { { BoxSeedItem(2, Kind(n, "M"), 1, b) } : n \in {1, 2}, b \in {"b1", "b2"} }

\* the ledger rows of the user: the row of the workspace, and before it
\* the row of the other workspace or none
BoxLedgers ==
    { { InventoryRow(2, CurrentSession, CurrentUser, bags, boxes, 0) } \cup other :
        bags \in 0..MaxBags, boxes \in 0..MaxBoxes,
        other \in { {}, { InventoryRow(1, OtherSession, CurrentUser, MaxBags, MaxBoxes, 0) } } }

\* box b1 as an earlier boxing request left it, with one unit in it
SeedBox ==
    [id |-> 1, session_id |-> CurrentSession, user_id |-> CurrentUser,
     box_number |-> "b1", wb_box_id |-> "", selected |-> FALSE,
     delivery_date |-> "", delivery_number |-> "", warehouse |-> ""]

SeedBoxItem ==
    [id |-> 1, box_id |-> 1, nm_id |-> 1, tech_size |-> "M",
     barcode |-> get_sku_for_size(ProductByNmId(1), "M"), quantity |-> 1]

\* a delivery of one box as add_from_boxes leaves it
SeedDelivery ==
    [id |-> 1, user_id |-> CurrentUser, session_id |-> CurrentSession,
     delivery_date |-> "d1", delivery_number |-> "n1", warehouse |-> "w1",
     status |-> READY, barcode_pdf |-> "pdf"]

SeedDeliveryBox ==
    [id |-> 1, delivery_id |-> 1, box_number |-> "b0", wb_box_id |-> "",
     items_json |-> set_items(<<SeedBoxItem>>)]

BoxDb(q1, second, ledger, boxed) ==
    [EmptyDb EXCEPT
       !.deliveries = {SeedDelivery},
       !.delivery_boxes = {SeedDeliveryBox},
       !.production_items = { BoxSeedItem(1, Kind(1, "M"), q1, "b1") } \cup second,
       !.boxes = IF boxed THEN {SeedBox} ELSE {},
       !.box_items = IF boxed THEN {SeedBoxItem} ELSE {},
       !.finished_goods = SeedFinishedGoods,
       !.inventory = ledger]

\* what the client sends to update_box: the selection mark, one field, or
\* the three delivery fields
BoxUpdates ==
    { [selected |-> TRUE], [selected |-> FALSE], [delivery_date |-> "d1"] } \cup
    { [delivery_date |-> "d1", delivery_number |-> n, warehouse |-> "w1"] :
        n \in {"n1", "n2"} }

update_box ==
    /\ \E box_id \in BoxIds, data \in BoxUpdates :
          UpdateBox(CurrentSession, box_id, data)
    /\ UNCHANGED <<gen, race>>

DeliveryIds == {1, 2}

add_from_boxes ==
    /\ \E failed \in SUBSET DeliveryIds :
          AddFromBoxes(CurrentUser, CurrentSession, failed)
    /\ UNCHANGED <<gen, race>>

update_status ==
    /\ \E delivery_id \in DeliveryIds, status \in {READY, ARCHIVED, IN_WORK} :
          UpdateStatus(CurrentSession, delivery_id, status)
    /\ UNCHANGED <<gen, race>>

delete_delivery ==
    /\ \E delivery_id \in DeliveryIds : DeleteDelivery(CurrentSession, delivery_id)
    /\ UNCHANGED <<gen, race>>

clear_deliveries ==
    /\ \E enforced \in BOOLEAN : ClearDeliveries(CurrentSession, enforced)
    /\ UNCHANGED <<gen, race>>

SpecBoxInit ==
    /\ db \in { BoxDb(q1, second, ledger, boxed) :
                  q1 \in Quantities, second \in SecondUnits, ledger \in BoxLedgers,
                  boxed \in BOOLEAN }
    /\ resp = NoResp
    /\ gen = GenIdle
    /\ race = RaceIdle

SpecBoxNext ==
    \/ add_from_production
    \/ delete_box
    \/ clear_boxes
    \/ delete_delivery
    \/ clear_deliveries

SpecBox == SpecBoxInit /\ [][SpecBoxNext]_vars

\* the box count of the workspace (no ledger row counts as none available)
BoxCount(d) ==
    IF \E i \in d.inventory : i.session_id = CurrentSession
    THEN (CHOOSE i \in d.inventory : i.session_id = CurrentSession).boxes_60x40x40
    ELSE 0

\* the units a boxing request takes
BoxingRows(d) ==
    { p \in d.production_items :
        p.session_id = CurrentSession /\ p.selected /\ p.box_number # "" }

SessionBoxes(d) == { b \in d.boxes : b.session_id = CurrentSession }

\* the box numbers of a boxing request for which the workspace has no box
NewBoxNumbers(d) ==
    { p.box_number : p \in BoxingRows(d) } \ { b.box_number : b \in SessionBoxes(d) }

\* C12: a boxing request for which the workspace's bag count is below the
\* total quantity of its units, or its box count below the number of boxes
\* the request has to create, is refused and changes nothing: no box, box
\* item, in-production row, finished-goods stock or ledger count differs.
C12_BoxingShortfallFails ==
    [][ ( /\ resp'.op = "add_from_production"
          /\ BoxingRows(db) # {}
          /\ \/ BagCount(db) < QuantityOf(BoxingRows(db))
             \/ BoxCount(db) < Cardinality(NewBoxNumbers(db)) )
        => (resp'.code # 200 /\ db' = db)
      ]_vars

\* C13: a successful boxing request lowers the workspace's bag count by the
\* summed quantity of the boxed units and its box count by the number of
\* box rows the request created; a box number the workspace already had
\* keeps its one box row.
C13_BoxingDeducts ==
    [][ (resp'.op = "add_from_production" /\ resp'.code = 200) =>
          LET created == { b \in db'.boxes : b.id \notin { o.id : o \in db.boxes } }
          IN /\ BagCount(db') = BagCount(db) - QuantityOf(BoxingRows(db))
             /\ BoxCount(db') = BoxCount(db) - Cardinality(created)
             /\ \A b \in SessionBoxes(db) : b \in db'.boxes
             /\ \A b \in created : b.box_number \in NewBoxNumbers(db)
             /\ Cardinality(created) = Cardinality(NewBoxNumbers(db))
      ]_vars

\* C16: deleting a box raises the workspace's bag count by the summed
\* quantity of the box's items and its box count by one; clearing the boxes
\* raises them by the summed quantity of all boxes' items and by the number
\* of boxes; deleting or clearing deliveries leaves the ledger as it was.
C16_DeletionRestores ==
    [][ /\ (resp'.op = "delete_box" /\ resp'.code = 200) =>
              /\ BagCount(db') = BagCount(db) + BoxedQuantity(db, resp'.ids)
              /\ BoxCount(db') = BoxCount(db) + 1
        /\ (resp'.op = "clear_boxes" /\ resp'.kind = "success") =>
              LET ids == { b.id : b \in SessionBoxes(db) }
              IN /\ BagCount(db') = BagCount(db) + BoxedQuantity(db, ids)
                 /\ BoxCount(db') = BoxCount(db) + Cardinality(ids)
        /\ resp'.op \in {"delete_delivery", "clear_deliveries"} =>
              db'.inventory = db.inventory
      ]_vars

-----------------------------------------------------------------------------
(* Specification SpecDeliver: two boxes as boxing left them are given      *)
(* their delivery fields, selected and turned into deliveries; deliveries  *)
(* are archived, deleted and cleared.                                      *)

SecondBox == [SeedBox EXCEPT !.id = 2, !.box_number = "b2"]

\* the contents of the second box: one or two items
SecondBoxItems ==
    { { [SeedBoxItem EXCEPT !.id = 2, !.box_id = 2, !.quantity = q] } \cup more :
        q \in 1..MaxQty,
        more \in { {}, { [id |-> 3, box_id |-> 2, nm_id |-> 2, tech_size |-> "M",
                          barcode |-> get_sku_for_size(ProductByNmId(2), "M"),
                          quantity |-> 1] } } }

DeliverDb(items, bags) ==
    [EmptyDb EXCEPT
       !.boxes = {SeedBox, SecondBox},
       !.box_items = {SeedBoxItem} \cup items,
       !.inventory = { InventoryRow(1, CurrentSession, CurrentUser, bags, 0, 0) }]

SpecDeliverInit ==
    /\ db \in { DeliverDb(items, bags) : items \in SecondBoxItems, bags \in 0..MaxBags }
    /\ resp = NoResp
    /\ gen = GenIdle
    /\ race = RaceIdle

SpecDeliverNext ==
    \/ update_box
    \/ add_from_boxes
    \/ update_status
    \/ delete_delivery
    \/ clear_deliveries

SpecDeliver == SpecDeliverInit /\ [][SpecDeliverNext]_vars

\* the boxes a create-delivery request takes
SelectedBoxes(d) == { b \in SessionBoxes(d) : b.selected }

DeliveryFields == {"delivery_date", "delivery_number", "warehouse"}

\* the lines of a rejection
Lines(detail) == { detail[i] : i \in 1..Len(detail) }

\* C14: a create-delivery request in which a selected box lacks a delivery
\* date, a delivery number or a warehouse is refused with one line for
\* every such box and every field it lacks (and no other line), and
\* changes nothing: no delivery, no delivery box, no box deleted.
C14_MissingInfoRejected ==
    [][ ( /\ resp'.op = "add_from_boxes"
          /\ \E b \in SelectedBoxes(db), f \in DeliveryFields : b[f] = "" )
        => /\ resp'.code = 400
           /\ \A b \in SelectedBoxes(db), f \in DeliveryFields :
                 b[f] = "" => <<b.box_number, f>> \in Lines(resp'.detail)
           /\ \A l \in Lines(resp'.detail) :
                 \E b \in SelectedBoxes(db) :
                     b.box_number = l[1] /\ l[2] \in DeliveryFields /\ b[l[2]] = ""
           /\ db' = db
      ]_vars

\* a rejection that names all three fields of one box and two of the other
C14_Witness ==
    /\ resp.op = "add_from_boxes" /\ resp.code = 400
    /\ Len(resp.detail) = 5
    /\ Cardinality(SelectedBoxes(db)) = 2
    /\ db.deliveries = {}

\* what a snapshot has to hold for a box: its items in key order
ContentOf(d, box) ==
    LET items == ItemsOfBox(d, box)
    IN [i \in 1..Len(items) |->
          [nm_id |-> items[i].nm_id, tech_size |-> items[i].tech_size,
           barcode |-> items[i].barcode, quantity |-> items[i].quantity]]

\* the (date, number, warehouse) triple of a box or of a delivery
TripleOf(x) == <<x.delivery_date, x.delivery_number, x.warehouse>>

\* C15: a successful create-delivery request creates one delivery per
\* distinct (date, number, warehouse) triple of the selected boxes, puts
\* every selected box into exactly one new delivery, the one of its triple,
\* as a snapshot whose items equal the box's items, and deletes every
\* selected box row.
C15_DeliveriesFromBoxes ==
    [][ (resp'.op = "add_from_boxes" /\ resp'.code = 200) =>
          LET chosen == SelectedBoxes(db)
              made   == { x \in db'.deliveries : x.id \notin { o.id : o \in db.deliveries } }
              packed == { x \in db'.delivery_boxes :
                            x.id \notin { o.id : o \in db.delivery_boxes } }
          IN /\ Cardinality(made) = Cardinality({ TripleOf(b) : b \in chosen })
             /\ \A x \in made : \E b \in chosen : TripleOf(x) = TripleOf(b)
             /\ Cardinality(packed) = Cardinality(chosen)
             /\ \A b \in chosen :
                  /\ \E x \in packed :
                        /\ x.box_number = b.box_number
                        /\ get_items(x.items_json) = ContentOf(db, b)
                        /\ \E y \in made : y.id = x.delivery_id
                                           /\ TripleOf(y) = TripleOf(b)
                  /\ \A o \in db'.boxes : o.id # b.id
      ]_vars

\* two boxes with the same triple have gone into one delivery
C15_Witness ==
    /\ resp.op = "add_from_boxes" /\ resp.code = 200 /\ resp.moved = 1
    /\ db.boxes = {}
    /\ \E x \in db.deliveries :
          Cardinality({ b \in db.delivery_boxes : b.delivery_id = x.id }) = 2

-----------------------------------------------------------------------------
(* defects_routes.py: update_defect_size, apply_defects;                   *)
(* finished_goods_routes.py: update_size_quantity                          *)
(*                                                                         *)
(* sizes_stock_json and sizes_defect_json hold a JSON object from size to  *)
(* whole number; a row carries the two dicts as functions.                 *)

\* the sizes apply_defects walks through
SizeList == <<"XXS", "XS", "S", "M", "L", "XL", "XXL", "XXXL">>

\* get_sizes_stock / get_sizes_defect of a row whose column is empty
DefaultSizes == [z \in { SizeList[i] : i \in 1..Len(SizeList) } |-> 0]

\* dict.get(key, 0)
GetOrZero(dict, key) == IF key \in DOMAIN dict THEN dict[key] ELSE 0

\* dict[key] = value
SetKey(dict, key, value) ==
    [k \in DOMAIN dict \cup {key} |-> IF k = key THEN value ELSE dict[k]]

\* FinishedGoodsStock.query.filter_by(id=stock_id, user_id=current_user.id).first()
StockOf(d, u, stock_id) ==
    FirstRow({ fg \in d.finished_goods : fg.id = stock_id /\ fg.user_id = u })

\* the whole request; quantity is an int or, for anything else, "bad"
UpdateDefectSize(u, stock_id, size, quantity, valid) ==
    LET op    == "update_defect_size"
        stock == StockOf(db, u, stock_id)
    IN IF stock = NONE THEN
           db' = db /\ resp' = Resp(op, {stock_id}, 404, "not_found")
       ELSE IF size = "" THEN
           db' = db /\ resp' = Resp(op, {stock_id}, 400, "no_size")
       ELSE IF ~valid \/ quantity < 0 THEN
           db' = db /\ resp' = Resp(op, {stock_id}, 400, "bad_quantity")
       ELSE
           /\ db' = [db EXCEPT !.finished_goods = (@ \ {stock}) \cup
                       { [stock EXCEPT !.sizes_defect = SetKey(@, size, quantity)] }]
           /\ resp' = Resp(op, {stock_id}, 200, "success")

\* the whole request
UpdateSizeQuantity(u, stock_id, size, quantity, valid) ==
    LET op    == "update_size_quantity"
        stock == StockOf(db, u, stock_id)
    IN IF stock = NONE THEN
           db' = db /\ resp' = Resp(op, {stock_id}, 404, "not_found")
       ELSE IF size = "" THEN
           db' = db /\ resp' = Resp(op, {stock_id}, 400, "no_size")
       ELSE IF ~valid \/ quantity < 0 THEN
           db' = db /\ resp' = Resp(op, {stock_id}, 400, "bad_quantity")
       ELSE
           /\ db' = [db EXCEPT !.finished_goods = (@ \ {stock}) \cup
                       { [stock EXCEPT !.sizes_stock = SetKey(@, size, quantity)] }]
           /\ resp' = Resp(op, {stock_id}, 200, "success")

RECURSIVE ApplySizes(_, _)
\* "for size in [...]": lower the stock of each listed size by its staged
\* quantity, not below zero, and reset the staged quantity
ApplySizes(acc, sizes) ==
    IF sizes = <<>> THEN acc
    ELSE LET size == Head(sizes)
             defect_qty == GetOrZero(acc.sizes_defect, size)
         IN ApplySizes(
               IF defect_qty > 0
               THEN [sizes_stock |-> SetKey(acc.sizes_stock, size,
                                            Max(0, GetOrZero(acc.sizes_stock, size) - defect_qty)),
                     sizes_defect |-> SetKey(acc.sizes_defect, size, 0),
                     applied |-> acc.applied + defect_qty]
               ELSE acc,
               Tail(sizes))

\* the body of "for stock in stocks"
ApplyStock(stock) ==
    LET has_defects == \E z \in DOMAIN stock.sizes_defect : stock.sizes_defect[z] > 0
        done == ApplySizes([sizes_stock |-> stock.sizes_stock,
                            sizes_defect |-> stock.sizes_defect, applied |-> 0],
                           SizeList)
    IN IF ~has_defects THEN [row |-> stock, applied |-> 0]
       ELSE [row |-> [stock EXCEPT !.sizes_stock = done.sizes_stock,
                                   !.sizes_defect = done.sizes_defect],
             applied |-> done.applied]

\* the whole request
ApplyDefects(u) ==
    LET op     == "apply_defects"
        stocks == { fg \in db.finished_goods : fg.user_id = u }
        total_defects_applied ==
            SumOver({ fg.id : fg \in stocks },
                    [id \in { fg.id : fg \in stocks } |->
                        ApplyStock(CHOOSE fg \in stocks : fg.id = id).applied])
    IN /\ db' = [db EXCEPT !.finished_goods =
                   (@ \ stocks) \cup { ApplyStock(fg).row : fg \in stocks }]
       /\ resp' = [Resp(op, {}, 200, IF total_defects_applied = 0 THEN "nothing" ELSE "success")
                     EXCEPT !.moved = total_defects_applied]

-----------------------------------------------------------------------------
(* Specification SpecDefects: two stock rows of the user; the stock of the *)
(* first and the staged defects of both are set per size, and the staged   *)
(* defects are applied.                                                    *)

StockIds == {1, 2}

\* the sizes a request names: one of the list, one that is not in it (a
\* numeric size of the marketplace), and none
RequestSizes == {"M", "42", ""}

StockRow(id, name) ==
    [id |-> id, user_id |-> CurrentUser, product_name |-> name, color |-> "red",
     sizes_stock |-> DefaultSizes, sizes_defect |-> DefaultSizes]

DefectsDb ==
    [EmptyDb EXCEPT !.finished_goods =
        { StockRow(1, <<"t", "s">>), StockRow(2, <<"h", "d">>) }]

update_defect_size ==
    /\ \E stock_id \in StockIds \cup {3}, size \in RequestSizes,
          quantity \in Quantities, valid \in BOOLEAN :
          UpdateDefectSize(CurrentUser, stock_id, size, quantity, valid)
    /\ UNCHANGED <<gen, race>>

update_size_quantity ==
    /\ \E stock_id \in {1}, size \in RequestSizes \ {""}, quantity \in 0..MaxQty :
          UpdateSizeQuantity(CurrentUser, stock_id, size, quantity, TRUE)
    /\ UNCHANGED <<gen, race>>

apply_defects ==
    /\ ApplyDefects(CurrentUser)
    /\ UNCHANGED <<gen, race>>

SpecDefectsInit ==
    /\ db = DefectsDb
    /\ resp = NoResp
    /\ gen = GenIdle
    /\ race = RaceIdle

SpecDefectsNext == update_defect_size \/ update_size_quantity \/ apply_defects

SpecDefects == SpecDefectsInit /\ [][SpecDefectsNext]_vars

\* the stock row with the id of row r in database d
SameRow(d, r) == CHOOSE x \in d.finished_goods : x.id = r.id

\* C17: staging a defect quantity changes the staged counters only, never a
\* stock; applying defects sets, for every stock row and every size with a
\* staged quantity d > 0, the stock of that size to max(0, stock - d) and
\* the staged quantity to 0, and leaves no row with a staged quantity
\* other than 0.
C17_DefectsStagedThenApplied ==
    [][ /\ resp'.op = "update_defect_size" =>
              \A r \in db.finished_goods :
                  [SameRow(db', r) EXCEPT !.sizes_defect = r.sizes_defect] = r
        /\ resp'.op = "apply_defects" =>
              /\ \A r \in db.finished_goods : \A z \in DOMAIN r.sizes_defect :
                    r.sizes_defect[z] > 0 =>
                       /\ GetOrZero(SameRow(db', r).sizes_stock, z) =
                             Max(0, GetOrZero(r.sizes_stock, z) - r.sizes_defect[z])
                       /\ SameRow(db', r).sizes_defect[z] = 0
              /\ \A r \in db'.finished_goods : \A z \in DOMAIN r.sizes_defect :
                    r.sizes_defect[z] = 0
      ]_vars
-----------------------------------------------------------------------------
(* The brand expenses (the usage ledger) under the move-to-production      *)
(* routes.  All requests of a behaviour fall on one day, so the date of    *)
(* an entry is left out of its key.                                        *)

\* the units counted by the entries of a brand, product, color and size
UsageCount(d, brand, product_name, color, size) ==
    LET hits == { e \in d.brand_expenses :
                    /\ e.brand = brand /\ e.product_name = product_name
                    /\ e.color = color /\ size \in DOMAIN e.sizes }
    IN SumOver({ e.id : e \in hits },
               [id \in { e.id : e \in hits } |->
                   (CHOOSE e \in hits : e.id = id).sizes[size]])

\* entry f counts no less than entry e, size by size and in bags
ExpenseNotLower(e, f) ==
    /\ f.bags_used >= e.bags_used
    /\ \A z \in DOMAIN e.sizes : z \in DOMAIN f.sizes /\ f.sizes[z] >= e.sizes[z]

\* the production items a step has created
MovedUnits == db'.production_items \ db.production_items

-----------------------------------------------------------------------------
(* print_tasks_routes.py: update_print_task                                *)

\* the fields of a print task the request may set, of those the model keeps
PrintTaskFields == {"quantity", "film_usage", "print_status"}

\* setattr(print_task, field, data[field]) for the fields present, then the
\* print status is copied to the linked order items and to the production
\* orders of these order items
UpdatePrintTask(s, task_id, data) ==
    LET op == "update_print_task"
        print_task == FirstRow({ t \in db.print_tasks :
                                   t.id = task_id /\ t.session_id = s })
        updated == [f \in DOMAIN print_task |->
                       IF f \in PrintTaskFields /\ f \in DOMAIN data
                       THEN data[f] ELSE print_task[f]]
        order_item_ids == print_task.order_item_ids
        synced == "print_status" \in DOMAIN data /\ order_item_ids # {}
    IN IF print_task = NONE THEN
           db' = db /\ resp' = Resp(op, {task_id}, 404, "not_found")
       ELSE
           /\ db' = [db EXCEPT
                       !.print_tasks = (@ \ {print_task}) \cup {updated},
                       !.order_items =
                           { IF synced /\ i.id \in order_item_ids
                             THEN [i EXCEPT !.print_status = data.print_status]
                             ELSE i : i \in @ },
                       !.production_orders =
                           { IF synced /\ p.order_item_id \in order_item_ids
                             THEN [p EXCEPT !.print_status = data.print_status]
                             ELSE p : p \in @ }]
           /\ resp' = Resp(op, {task_id}, 200, "success")

-----------------------------------------------------------------------------
(* Specification SpecStatus: the requests that set a status, from every    *)
(* database of two order items, at most one print task with its            *)
(* production order, and one delivery.                                     *)

StatusItem(id, size, st) ==
    OrderItemRow(id, CHOOSE k \in UnitKinds : k.nm_id = 1 /\ k.tech_size = size, 1, st)

\* the print task of order item 1 and the production order copied with it
StatusTask(st) ==
    [NewPrintTask(1, CurrentSession, StatusItem(1, "M", st), 1, {1}) EXCEPT
        !.print_status = st]

StatusDb(st1, st2, tasks, delivery_status) ==
    [EmptyDb EXCEPT
       !.order_items = { StatusItem(1, "M", st1), StatusItem(2, "L", st2) },
       !.print_tasks = { StatusTask(st) : st \in tasks },
       !.production_orders =
           { ProductionOrderRow(1, CHOOSE k \in UnitKinds :
                                     k.nm_id = 1 /\ k.tech_size = "M", 1, st) :
               st \in tasks },
       !.deliveries = { [SeedDelivery EXCEPT !.status = delivery_status] }]

SpecStatusInit ==
    /\ db \in { StatusDb(st1, st2, tasks, delivery_status) :
                  st1 \in PrintStatuses \cup {UNSET},
                  st2 \in PrintStatuses \cup {UNSET},
                  tasks \in { {} } \cup { {st} : st \in PrintStatuses },
                  delivery_status \in {READY, ARCHIVED} }
    /\ resp = NoResp
    /\ gen = GenIdle
    /\ race = RaceIdle

update_order_item_print_status ==
    /\ \E item_id \in ItemIds, st \in PrintStatuses :
          UpdateOrderItem(CurrentSession, TheOrder, item_id, [print_status |-> st])
    /\ UNCHANGED <<gen, race>>

update_print_task ==
    /\ \E task_id \in TaskIds, st \in PrintStatuses :
          UpdatePrintTask(CurrentSession, task_id, [print_status |-> st])
    /\ UNCHANGED <<gen, race>>

SpecStatusNext == update_order_item_print_status \/ update_print_task \/ update_status

SpecStatus == SpecStatusInit /\ [][SpecStatusNext]_vars

\* every row of rows that has the status still has it after the step
StatusKept(rows, rows_after, field, status) ==
    \A x \in rows : x[field] = status
        => \A y \in rows_after : y.id = x.id => y[field] = status

\* C19: no operation resets a status to an earlier value: a print status
\* that is done stays done, on the order item, the print task and the
\* production order, and a delivery that is archived stays archived; and no
\* operation brings a unit back among the order items.
C19_StatusesOneDirectional ==
    [][ /\ StatusKept(db.order_items, db'.order_items, "print_status", READY)
        /\ StatusKept(db.print_tasks, db'.print_tasks, "print_status", READY)
        /\ StatusKept(db.production_orders, db'.production_orders,
                      "print_status", READY)
        /\ StatusKept(db.deliveries, db'.deliveries, "status", ARCHIVED)
        /\ { i.id : i \in db'.order_items } \subseteq { i.id : i \in db.order_items }
      ]_vars

-----------------------------------------------------------------------------
(* label_generator.py: _ean13_from_gs1 and its checksum_ean13.  A string   *)
(* of digits is the sequence of its digits; g14 is the group the search    *)
(* for the application identifier 01 has matched, and the empty sequence   *)
(* stands for None (no text, or no match).                                 *)

\* "for i, ch in enumerate(d12)": position i (from 0) adds the digit when
\* i is even and three times the digit when i is odd
RECURSIVE ChecksumLoop(_, _, _)
ChecksumLoop(d12, i, total) ==
    IF i >= Len(d12) THEN total
    ELSE ChecksumLoop(d12, i + 1,
                      total + (IF i % 2 = 0 THEN d12[i + 1] ELSE 3 * d12[i + 1]))

checksum_ean13_one_mod(d12) ==
    10 - (ChecksumLoop(d12, 0, 0) % 10)

checksum_ean13(d12) ==
    (10 - (ChecksumLoop(d12, 0, 0) % 10)) % 10

ean13_from_gs1_any_lead(g14) ==
    IF g14 = <<>> THEN <<>>
    ELSE LET d13 == Tail(g14)
         IN Front(d13) \o <<checksum_ean13(Front(d13))>>

\* None without a match or when the first digit of the GTIN-14 is not 0;
\* otherwise the digits 2..13 followed by their check digit
ean13_from_gs1(g14) ==
    IF g14 = <<>> THEN <<>>
    ELSE IF g14[1] # 0 THEN <<>>
    ELSE LET d13 == Tail(g14)
         IN Front(d13) \o <<checksum_ean13(Front(d13))>>

-----------------------------------------------------------------------------
(* Specification SpecEan: _ean13_from_gs1 on the GTIN-14 codes whose       *)
(* twelve middle digits differ from those of a base code in at most        *)
(* MaxChanged places.                                                      *)

MaxChanged == 1     \* places in which an input differs from the base code

Digits == 0..9

BaseDigits == <<4, 6, 0, 1, 2, 3, 4, 5, 6, 7, 8, 9>>

\* the 12-digit strings that differ from the base in the places of where
Changed(where) ==
    { [i \in 1..12 |-> IF i \in where THEN new[i] ELSE BaseDigits[i]] :
        new \in [where -> Digits] }

Inputs12 ==
    UNION { Changed(where) : where \in { w \in SUBSET (1..12) : Cardinality(w) <= MaxChanged } }

\* GTIN-14 codes: a leading digit, twelve digits and the check digit of
\* the code, which the function drops
Inputs14 ==
    { <<lead>> \o d12 \o <<last>> : lead \in {0, 1}, d12 \in Inputs12, last \in {0} }

SpecEanInit ==
    /\ db = EmptyDb
    /\ resp = NoResp
    /\ gen \in { [pc |-> "ean", g14 |-> g14] : g14 \in Inputs14 }
    /\ race = RaceIdle

make_ean ==
    /\ resp' = [Resp("ean13_from_gs1", {}, 0, "ean") EXCEPT
                  !.detail = ean13_from_gs1(gen.g14)]
    /\ UNCHANGED <<db, gen, race>>

SpecEanNext == make_ean

SpecEan == SpecEanInit /\ [][SpecEanNext]_vars

\* the digits of a string at its odd places (the first, the third, ...)
\* and at its even places, added up
OddPlaces(s)  == SumOver({ i \in 1..Len(s) : i % 2 = 1 }, s)
EvenPlaces(s) == SumOver({ i \in 1..Len(s) : i % 2 = 0 }, s)

\* the EAN-13 validation: thirteen digits whose weighted sum, weights 1 and
\* 3 in turn from the first digit, is a multiple of 10
ValidEan13(s) ==
    /\ Len(s) = 13
    /\ \A i \in 1..13 : s[i] \in Digits
    /\ (OddPlaces(s) + 3 * EvenPlaces(s)) % 10 = 0

\* C20: the check digit made for twelve digits is
\* (10 - (odd places + 3 * even places) mod 10) mod 10, and the thirteen
\* digits with it pass the EAN-13 validation.
C20_CheckDigit ==
    (resp.op = "ean13_from_gs1" /\ resp.detail # <<>>)
        => LET d12 == SubSeq(gen.g14, 2, 13)
           IN /\ SubSeq(resp.detail, 1, 12) = d12
              /\ resp.detail[13] =
                    (10 - ((OddPlaces(d12) + 3 * EvenPlaces(d12)) % 10)) % 10
              /\ ValidEan13(resp.detail)

\* a code whose weighted sum is a multiple of 10 has got the check digit 0
C20_Witness ==
    /\ resp.op = "ean13_from_gs1"
    /\ Len(resp.detail) = 13
    /\ resp.detail[13] = 0
    /\ SubSeq(gen.g14, 2, 13) # BaseDigits

-----------------------------------------------------------------------------
(* label_generator.py: _ean13_from_gs1 on the text.  A text is the         *)
(* sequence of its characters, each a string of one character; the result  *)
(* is the text of the EAN-13, and the empty sequence stands for None.      *)

DigitChars == <<"0", "1", "2", "3", "4", "5", "6", "7", "8", "9">>

IsDigit(ch) == \E i \in 1..10 : DigitChars[i] = ch

\* int(ch), and the character of a digit
IntOf(ch)  == (CHOOSE i \in 1..10 : DigitChars[i] = ch) - 1
CharOf(d)  == DigitChars[d + 1]

\* re.sub(r"\s+", "", gs1_text)
StripSpaces(text) == SelectSeq(text, LAMBDA ch : ch # " ")

\* re.search(ai + r"(\d{14})", s): the group of the leftmost place where
\* the characters of ai are followed by fourteen digits, or nothing
SearchAi(s, ai) ==
    LET n == Len(ai)
        hits == { i \in 1..Len(s) :
                    /\ i + n + 13 <= Len(s)
                    /\ SubSeq(s, i, i + n - 1) = ai
                    /\ \A j \in (i + n)..(i + n + 13) : IsDigit(s[j]) }
    IN IF hits = {} THEN <<>>
       ELSE LET i == CHOOSE h \in hits : \A o \in hits : h <= o
            IN SubSeq(s, i + n, i + n + 13)

\* the whole function: no text, no match or a GTIN-14 that does not start
\* with 0 give None; the parenthesised form is searched first
Gs1ToEan13(gs1_text) ==
    IF gs1_text = <<>> THEN <<>>
    ELSE LET s  == StripSpaces(gs1_text)
             m1 == SearchAi(s, <<"(", "0", "1", ")">>)
             m  == IF m1 # <<>> THEN m1 ELSE SearchAi(s, <<"0", "1">>)
             ean == ean13_from_gs1([i \in 1..Len(m) |-> IntOf(m[i])])
         IN [i \in 1..Len(ean) |-> CharOf(ean[i])]

-----------------------------------------------------------------------------
(* Specification SpecGs1: _ean13_from_gs1 on the texts that carry the      *)
(* GTIN-14 codes of Inputs14 in the forms a decoded code comes in.         *)

Ai01 == <<"(", "0", "1", ")">>

Serial == <<"(", "2", "1", ")", "a", "1">>

\* the forms of a text around the fourteen digits g
Gs1Forms(g) ==
    { Ai01 \o g,                          \* (01)GTIN
      Ai01 \o g \o Serial,                \* (01)GTIN(21)a1
      <<" ">> \o Ai01 \o g \o <<" ">> \o Serial,
      Ai01 \o <<" ">> \o g,               \* a space after the identifier
      <<"0", "1">> \o g \o <<"2", "1", "a", "1">>,   \* without parentheses
      SubSeq(g, 1, 13),                   \* thirteen digits only
      Serial }                            \* no identifier 01

Gs1Texts ==
    UNION { Gs1Forms([i \in 1..14 |-> CharOf(g14[i])]) : g14 \in Inputs14 }

SpecGs1Init ==
    /\ db = EmptyDb
    /\ resp = NoResp
    /\ gen \in { [pc |-> "gs1", gs1_text |-> t] : t \in Gs1Texts \cup {<<>>} }
    /\ race = RaceIdle

read_gs1 ==
    /\ resp' = [Resp("_ean13_from_gs1", {}, 0, "ean") EXCEPT
                  !.detail = Gs1ToEan13(gen.gs1_text)]
    /\ UNCHANGED <<db, gen, race>>

SpecGs1Next == read_gs1

SpecGs1 == SpecGs1Init /\ [][SpecGs1Next]_vars

\* the places of a text where (01) is followed by fourteen digits
GtinPlaces(t) ==
    { i \in 1..Len(t) :
        /\ i + 17 <= Len(t)
        /\ SubSeq(t, i, i + 3) = Ai01
        /\ \A j \in (i + 4)..(i + 17) : IsDigit(t[j]) }

\* C21: for a text that contains (01) followed by a 14-digit GTIN, the
\* extraction gives thirteen digits, the GTIN without its first digit and
\* with a recomputed valid check digit, when the GTIN starts with 0, and
\* no result when it starts with another digit.
C21_Gs1Extraction ==
    resp.op = "_ean13_from_gs1" =>
        \A i \in GtinPlaces(gen.gs1_text) :
            LET gtin == SubSeq(gen.gs1_text, i + 4, i + 17)
                out  == resp.detail
            IN IF gtin[1] = "0"
               THEN /\ Len(out) = 13
                    /\ \A j \in 1..13 : IsDigit(out[j])
                    /\ SubSeq(out, 1, 12) = SubSeq(gtin, 2, 13)
                    /\ ValidEan13([j \in 1..13 |-> IntOf(out[j])])
               ELSE out = <<>>

\* an EAN-13 read from a text with a serial number after the GTIN, whose
\* check digit differs from the one the GTIN carried
C21_Witness ==
    /\ resp.op = "_ean13_from_gs1"
    /\ GtinPlaces(gen.gs1_text) # {}
    /\ Len(gen.gs1_text) > 18
    /\ Len(resp.detail) = 13
    /\ resp.detail[13] # "0"

-----------------------------------------------------------------------------
(* barcode_generator.py: generate_delivery_barcodes.  Texts are sequences  *)
(* of characters; a document is the sequence of its pages, a page being    *)
(* the text of the barcode drawn on it before showPage().                  *)

\* the characters matched by \w among those of the model
WordChars == {"W", "B", "a", "0", "2", "4", "9", "_"}

\* str.strip(chars): the text without the leading and trailing characters
\* that are in chars
StripOf(text, chars) ==
    LET keep == { i \in 1..Len(text) : text[i] \notin chars }
    IN IF keep = {} THEN <<>>
       ELSE SubSeq(text, CHOOSE i \in keep : \A j \in keep : i <= j,
                         CHOOSE i \in keep : \A j \in keep : i >= j)

\* re.sub(r"[^\w\-]", "-", text)
ReplaceNonWord(text) ==
    [i \in 1..Len(text) |->
        IF text[i] \in WordChars \/ text[i] = "-" THEN text[i] ELSE "-"]

\* re.sub(r"-+", "-", text): only the first hyphen of a run is kept
CollapseHyphens(text) ==
    LET keep == { i \in 1..Len(text) :
                    ~(text[i] = "-" /\ i > 1 /\ text[i - 1] = "-") }
        nth(k) == CHOOSE i \in keep : Cardinality({ j \in keep : j <= i }) = k
    IN [k \in 1..Cardinality(keep) |-> text[nth(k)]]

SafeNumNoCollapse(delivery_number) ==
    StripOf(ReplaceNonWord(StripOf(delivery_number, {" "})), {"-"})

\* lines 31-33: the delivery number cleaned for the barcode
SafeNum(delivery_number) ==
    StripOf(CollapseHyphens(ReplaceNonWord(StripOf(delivery_number, {" "}))), {"-"})

\* the pages of the box document: the loop over the boxes, which skips
\* ("continue") a box whose wb_box_id is empty after strip()
BoxPages(boxes_with_items) ==
    SelectSeq([i \in 1..Len(boxes_with_items) |->
                  StripOf(boxes_with_items[i].wb_box_id, {" "})],
              LAMBDA wb_box_id : wb_box_id # <<>>)

NumPagesOfBoxesOnly(boxes_with_items) == Len(boxes_with_items)

\* num_pages = len(boxes_with_items) + 1
NumPages(boxes_with_items) == Len(boxes_with_items) + 1

\* the whole function: ValueError before any canvas is made when the
\* cleaned number is empty; otherwise both documents are saved
GenerateDeliveryBarcodes(delivery_number, boxes_with_items) ==
    LET safe_num == SafeNum(delivery_number)
    IN IF safe_num = <<>>
       THEN [raised |-> "ValueError", written |-> {},
             pdf_boxes |-> <<>>, pdf_supply |-> <<>>]
       ELSE [raised |-> "",
             written |-> {"wb_boxes", "wb_supply"},
             pdf_boxes |-> BoxPages(boxes_with_items),
             pdf_supply |-> [p \in 1..NumPages(boxes_with_items) |-> safe_num]]

-----------------------------------------------------------------------------
(* Specification SpecBarcode: generate_delivery_barcodes on delivery       *)
(* numbers of at most MaxNumberLen characters (and the number of the       *)
(* example) and on at most MaxBoxCount boxes.                              *)

MaxNumberLen == 4   \* characters of a delivery number
MaxBoxCount  == 3   \* boxes of a delivery

NumberChars == {"a", "-", " ", "/"}

ExampleNumber == <<"W", "B", " ", "2", "0", "2", "4", "/", "0", "9">>

DeliveryNumbers ==
    {ExampleNumber} \cup
    UNION { [1..n -> NumberChars] : n \in 0..MaxNumberLen }

\* a box without an ID, with a blank ID, with an ID
BoxChoices ==
    { [wb_box_id |-> <<>>], [wb_box_id |-> <<" ">>],
      [wb_box_id |-> <<" ", "B", "9">>] }

BoxLists == UNION { [1..n -> BoxChoices] : n \in 0..MaxBoxCount }

SpecBarcodeInit ==
    /\ db = EmptyDb
    /\ resp = NoResp
    /\ gen \in { [pc |-> "call", delivery_number |-> num, boxes_with_items |-> boxes,
                  made |-> GenerateDeliveryBarcodes(<<>>, <<>>)] :
                   num \in DeliveryNumbers, boxes \in BoxLists }
    /\ race = RaceIdle

generate_delivery_barcodes ==
    /\ gen.pc = "call"
    /\ gen' = [gen EXCEPT !.pc = "done",
                          !.made = GenerateDeliveryBarcodes(gen.delivery_number,
                                                            gen.boxes_with_items)]
    /\ UNCHANGED <<db, resp, race>>

SpecBarcodeNext == generate_delivery_barcodes

SpecBarcode == SpecBarcodeInit /\ [][SpecBarcodeNext]_vars

\* a box has an external ID: some character of it is not a blank
HasId(box) == \E i \in 1..Len(box.wb_box_id) : box.wb_box_id[i] # " "

\* C22: a generation that does not fail emits a box document with one
\* page per box that has a non-empty external ID, in no case an error for
\* a box without one, and a shipment document of len(boxes) + 1 pages.
C22_BarcodePages ==
    (gen.pc = "done" /\ \E i \in 1..Len(gen.delivery_number) :
                            gen.delivery_number[i] \in WordChars)
        => /\ gen.made.raised = ""
           /\ Len(gen.made.pdf_boxes) =
                 Cardinality({ i \in 1..Len(gen.boxes_with_items) :
                                 HasId(gen.boxes_with_items[i]) })
           /\ Len(gen.made.pdf_supply) = Len(gen.boxes_with_items) + 1

\* three boxes of which one has an ID: one page and four pages
C22_Witness ==
    /\ gen.pc = "done"
    /\ Len(gen.boxes_with_items) = 3
    /\ Len(gen.made.pdf_boxes) = 1
    /\ Len(gen.made.pdf_supply) = 4

\* a text of word characters and single hyphens that neither starts nor
\* ends with a hyphen
Clean(text) ==
    /\ \A i \in 1..Len(text) : text[i] \in WordChars \/ text[i] = "-"
    /\ \A i \in 1..(Len(text) - 1) : ~(text[i] = "-" /\ text[i + 1] = "-")
    /\ text # <<>> => (text[1] # "-" /\ text[Len(text)] # "-")

\* C23: the cleaned delivery number is made of word characters and single
\* hyphens only and has no hyphen at either end ("WB 2024/09" gives
\* "WB-2024-09"), cleaning it again changes nothing, and a number whose
\* cleaned form is empty makes the generation raise the validation error
\* with no document written.
C23_Sanitization ==
    LET safe_num == SafeNum(gen.delivery_number)
    IN /\ Clean(safe_num)
       /\ SafeNum(safe_num) = safe_num
       /\ gen.delivery_number = ExampleNumber
             => safe_num = <<"W", "B", "-", "2", "0", "2", "4", "-", "0", "9">>
       /\ gen.pc = "done" =>
             /\ gen.made.raised = "ValueError" <=> safe_num = <<>>
             /\ safe_num = <<>> => gen.made.written = {}
             /\ safe_num # <<>> => \A p \in 1..Len(gen.made.pdf_supply) :
                                      gen.made.pdf_supply[p] = safe_num

\* a number of blanks, slashes and hyphens only has failed the generation
C23_Witness ==
    /\ gen.pc = "done"
    /\ Len(gen.delivery_number) = 3
    /\ gen.made.raised = "ValueError"
    /\ gen.made.written = {}

-----------------------------------------------------------------------------
(* wb_api.py: the request loop of fetch_all_products and of                *)
(* get_product_by_nmid.  The state of a call is its place in the loops:    *)
(* the attempt of the "for", the pages fetched, the requests sent for the  *)
(* current page and the sleeps made, in hundredths of a second.            *)

max_retries == 4

\* backoff_base * (2 ** attempt), backoff_base = 0.6
Backoff(attempt) == 60 * (2 ^ attempt)

RetriedStatuses == {429, 500, 502, 503, 504}

\* the exception handler of the "for" body: re-raise on the last attempt,
\* otherwise sleep and go on with the next attempt
WbExcept(call, status) ==
    IF call.attempt >= max_retries
    THEN [call EXCEPT !.pc = "raised", !.status = status,
                      !.requests = @ + 1]
    ELSE [call EXCEPT !.status = status, !.requests = @ + 1,
                      !.sleeps = Append(@, Backoff(call.attempt)),
                      !.attempt = @ + 1]

\* one pass of the "for" body with the status the service answers; more
\* tells whether the answer has cards and a cursor to go on with, found
\* whether get_product_by_nmid finds its card in the answer
WbAttempt(call, status, more, found, max_pages) ==
    IF status = 401 THEN WbExcept(call, status)          \* raise, caught at 74/149
    ELSE IF status \in RetriedStatuses THEN
        IF call.attempt >= max_retries
        THEN [call EXCEPT !.pc = "returned", !.status = status,
                          !.requests = @ + 1,
                          !.sleeps = Append(@, Backoff(call.attempt))]
        ELSE [call EXCEPT !.status = status, !.requests = @ + 1,
                          !.sleeps = Append(@, Backoff(call.attempt)),
                          !.attempt = @ + 1]
    ELSE IF status # 200 THEN WbExcept(call, status)     \* raise, caught
    ELSE IF call.method = "get_product_by_nmid" /\ found
        THEN [call EXCEPT !.pc = "returned", !.status = status, !.requests = @ + 1]
    ELSE IF ~more \/ (call.method = "fetch_all_products" /\ call.pages + 1 >= max_pages)
        THEN [call EXCEPT !.pc = "returned", !.status = status,
                          !.requests = @ + 1,
                          !.pages = IF more THEN @ + 1 ELSE @]
    ELSE [call EXCEPT !.status = status, !.requests = 0, !.attempt = 0,
                      !.pages = @ + 1,
                      !.sleeps = Append(@, 12)]           \* time.sleep(0.12)

-----------------------------------------------------------------------------
(* Specification SpecWb: one call of either method, answered with any      *)
(* status of Statuses at every request, for at most MaxFetched pages.      *)

MaxFetched == 2     \* max_pages of the call

Statuses == {200, 401, 403, 429, 500}

WbCall(method) ==
    [pc |-> "request", method |-> method, attempt |-> 0, pages |-> 0,
     requests |-> 0, status |-> 0, sleeps |-> <<>>]

SpecWbInit ==
    /\ db = EmptyDb
    /\ resp = NoResp
    /\ gen \in { WbCall(m) : m \in {"fetch_all_products", "get_product_by_nmid"} }
    /\ race = RaceIdle

wb_post ==
    /\ gen.pc = "request"
    /\ gen.pages < MaxFetched
    /\ \E status \in Statuses, more \in BOOLEAN, found \in BOOLEAN :
          /\ (status # 200 => ~more /\ ~found)
          /\ (gen.method = "fetch_all_products" => ~found)
          /\ gen' = WbAttempt(gen, status, more, found, MaxFetched)
    /\ UNCHANGED <<db, resp, race>>

SpecWbNext == wb_post

SpecWb == SpecWbInit /\ [][SpecWbNext]_vars

\* C24: an answer 401 makes the call fail at once: the error is raised
\* after that one request of the page, with no sleep and no further
\* request; and a request is repeated after a backoff only when the answer
\* was 429 or a 5xx status.
C24_AuthFailsImmediately ==
    [][ /\ gen'.status = 401
           => /\ gen'.pc = "raised"
              /\ gen'.requests = 1
              /\ gen'.sleeps = gen.sleeps
        /\ (gen'.pc = "request" /\ gen'.attempt = gen.attempt + 1)
           => gen'.status \in {429} \cup 500..599
      ]_vars

-----------------------------------------------------------------------------
(* Specification SpecBatch: the production-order move on batches of up to  *)
(* four units, one of each product, each printed or still in print.        *)

BatchIds == {1, 2, 3, 4}

BatchDb(statuses, docs) ==
    [EmptyDb EXCEPT
       !.production_orders =
           { ProductionOrderRow(i, CHOOSE k \in UnitKinds :
                                     k.nm_id = i /\ k.tech_size = "M",
                                1, statuses[i]) : i \in BatchIds },
       !.cis_labels = docs,
       !.inventory = { InventoryRow(1, CurrentSession, CurrentUser, MaxBags, 0, 0) }]

SpecBatchInit ==
    /\ db \in { BatchDb(statuses, docs) :
                  statuses \in [BatchIds -> PrintStatuses], docs \in DocChoices }
    /\ resp = NoResp
    /\ gen = GenIdle
    /\ race = RaceIdle

po_move_batch ==
    /\ \E item_ids \in SUBSET BatchIds, raised \in 0..1 :
          PoMoveToProduction(CurrentUser, CurrentSession, item_ids, raised)
    /\ UNCHANGED <<gen, race>>

SpecBatchNext == po_move_batch

SpecBatch == SpecBatchInit /\ [][SpecBatchNext]_vars

\* C25: the error message of a rejected batch names every offending unit
\* or group: every selected unit whose print status is not done, every
\* group that fails validation, every box that lacks a field.
C25_ErrorsNameEveryOffender ==
    [][ LET sel == SelectedOrders(db, resp'.ids)
        IN /\ (resp'.op = "po_move" /\ resp'.kind = "not_ready")
                => \A o \in sel : o.print_status # READY
                      => o.id \in Lines(resp'.detail)
           /\ (resp'.op = "po_move" /\ resp'.kind = "validation")
                => \A o \in sel : GroupFailsValidation(db, sel, GroupKey(o))
                      => \E l \in Lines(resp'.detail) :
                            l.nm_id = o.nm_id /\ l.tech_size = o.tech_size
           /\ (resp'.op = "add_from_boxes" /\ resp'.kind = "missing_info")
                => \A b \in SelectedBoxes(db), f \in DeliveryFields :
                      b[f] = "" => <<b.box_number, f>> \in Lines(resp'.detail)
      ]_vars

-----------------------------------------------------------------------------
(* Label pages of a successful production-order move.                      *)

-----------------------------------------------------------------------------
(* Production orders of an order item.                                     *)

\* C27: an order item is represented by at most one production order;
\* copying an order item that is not done to the print queue again makes
\* no second production order for it.
C27_OneOrderPerItem ==
    \A i \in ItemIds :
        Cardinality({ p \in db.production_orders : p.order_item_id = i }) <= 1

-----------------------------------------------------------------------------
(* How a production order becomes done.                                    *)

\* C28: the print status of a production order becomes done only in a
\* completion of its print task that succeeds, the operation that checks
\* and deducts the film of the task; no other operation makes a unit
\* eligible for the move to production.
C28_DoneOnlyByCompletion ==
    [][ \A p \in db.production_orders, q \in db'.production_orders :
          (q.id = p.id /\ p.print_status # READY /\ q.print_status = READY)
            => (resp'.op = "complete_print_task" /\ resp'.code = 200)
      ]_vars


-----------------------------------------------------------------------------
(* production_routes.py: update_production_item                            *)

\* the whole request; data maps the fields the client sent to their values
UpdateProductionItem(s, item_id, data) ==
    LET op   == "update_production_item"
        item == FirstRow({ p \in db.production_items :
                             p.id = item_id /\ p.session_id = s })
    IN IF item = NONE THEN
           db' = db /\ resp' = Resp(op, {item_id}, 404, "not_found")
       ELSE
           /\ db' = [db EXCEPT !.production_items = (@ \ {item}) \cup
                       { [f \in DOMAIN item |->
                            IF f \in DOMAIN data THEN data[f] ELSE item[f]] }]
           /\ resp' = Resp(op, {item_id}, 200, "success")

-----------------------------------------------------------------------------
(* Specification SpecChain: printed units go the whole chain.  One or two  *)
(* production orders of the labelled products are moved to production,     *)
(* given a box number and selected, boxed, the boxes are given their       *)
(* delivery fields and turned into deliveries.  The label source and the   *)
(* ledger are large enough for every unit.                                 *)

\* the second production order: none, or one unit of a labelled product
ChainSeconds ==
    { {} } \cup { { ProductionOrderRow(2, k, 1, READY) } : k \in LabelledKinds }

ChainDb(q1, second) ==
    [EmptyDb EXCEPT
       !.production_orders = { ProductionOrderRow(1, Kind(1, "M"), q1, READY) } \cup second,
       !.cis_labels = { CisLabelRow(SourcePages) },
       !.finished_goods = SeedFinishedGoods,
       !.inventory = { InventoryRow(1, CurrentSession, CurrentUser,
                                    4 * MaxQty, Cardinality(BoxIds), 0) }]

\* what the client sends to update_production_item: the box number typed
\* into the row and the selection mark
ProductionItemUpdates ==
    { [box_number |-> b, selected |-> TRUE] : b \in {"b1", "b2"} }

update_production_item ==
    /\ \E item_id \in UnitIds, data \in ProductionItemUpdates :
          UpdateProductionItem(CurrentSession, item_id, data)
    /\ UNCHANGED <<gen, race>>

SpecChainInit ==
    /\ db \in { ChainDb(q1, second) : q1 \in Quantities, second \in ChainSeconds }
    /\ resp = NoResp
    /\ gen = GenIdle
    /\ race = RaceIdle

SpecChainNext ==
    \/ po_move_to_production
    \/ update_production_item
    \/ add_from_production
    \/ update_box
    \/ add_from_boxes

SpecChain == SpecChainInit /\ [][SpecChainNext]_vars

\* the (product, size) pairs of the units
ProductSizes == { <<k.nm_id, k.tech_size>> : k \in UnitKinds }

\* the quantity of a product and size in a set of rows with ids
RowQuantity(rows, ps) ==
    LET hits == { r \in rows : r.nm_id = ps[1] /\ r.tech_size = ps[2] }
    IN SumOver({ r.id : r \in hits },
               [i \in { r.id : r \in hits } |->
                  (CHOOSE r \in hits : r.id = i).quantity])

\* the quantity of a product and size recorded in the delivery snapshots
SnapshotQuantity(d, ps) ==
    LET items(x) == get_items(x.items_json)
        lines == UNION { { <<x.id, i>> : i \in 1..Len(x.items_json) } :
                         x \in d.delivery_boxes }
        item(l) == items(CHOOSE x \in d.delivery_boxes : x.id = l[1])[l[2]]
        hits == { l \in lines : item(l).nm_id = ps[1] /\ item(l).tech_size = ps[2] }
    IN SumOver(hits, [l \in hits |-> item(l).quantity])

\* the stages of the chain and the quantity each holds
StageQuantity(d, stage, ps) ==
    CASE stage = 1 -> RowQuantity(d.production_orders, ps)
      [] stage = 2 -> RowQuantity(d.production_items, ps)
      [] stage = 3 -> RowQuantity(d.box_items, ps)
      [] stage = 4 -> SnapshotQuantity(d, ps)

\* the stage a successful request takes units from (0: not a transition)
StageLeft(r) ==
    IF r.code # 200 THEN 0
    ELSE CASE r.op = "po_move" -> 1
           [] r.op = "add_from_production" -> 2
           [] r.op = "add_from_boxes" -> 3
           [] OTHER -> 0

\* C29: for every successful transition of the chain production order,
\* in-production, boxed, delivered, and every (product, size), the quantity
\* removed from the prior stage equals the quantity added to the next
\* stage: in-production rows created, box-item quantities added (merges
\* into an existing box item included), quantities recorded in the
\* delivery snapshot.
C29_QuantityConserved ==
    [][ StageLeft(resp') # 0 =>
          \A ps \in ProductSizes :
              StageQuantity(db, StageLeft(resp'), ps)
                  - StageQuantity(db', StageLeft(resp'), ps)
              = StageQuantity(db', StageLeft(resp') + 1, ps)
                  - StageQuantity(db, StageLeft(resp') + 1, ps) ]_vars

\* two units moved to production were boxed in one request and merged
\* into one box item
C29_Witness ==
    /\ resp.op = "add_from_production"
    /\ resp.code = 200
    /\ resp.moved = 2
    /\ Cardinality(db.box_items) = 1
    /\ db.production_orders = {}
    /\ db.production_items = {}

\* C30: the requests made inside a workspace read and modify the ledger
\* row of that workspace only: no step changes or removes the ledger row
\* of another workspace, however many workspaces the user works in.
C30_OneLedgerPerWorkspace ==
    [][ \A row \in db.inventory :
           row.session_id # CurrentSession => row \in db'.inventory ]_vars
=============================================================================
